---- MODULE Spec2Model ----
(***************************************************************************)
(* A model of the Visio service of MPC-Servers                             *)
(* (src/src/backend/visio_service.py): the document session handling       *)
(* (reuse / open / materialise-from-content, cleanup in the finally        *)
(* blocks), the mutation engine (add / update / delete shapes, add         *)
(* connections), the analysis reports and the connection verifier.         *)
(*                                                                         *)
(* The automation backend (Visio behind win32com) is the environment: its  *)
(* Documents collection is the variable documents, the file system is      *)
(* files and tempFiles.  Every request handler is one action; the backend  *)
(* call that raises during a request, if any, is an input of the action.   *)
(*                                                                         *)
(* Python values: None, 0 and "" are all falsy, so an absent identifier is *)
(* 0 and an absent name or text is "".  A document handle is an index into *)
(* documents, 0 for None.                                                  *)
(***************************************************************************)
EXTENDS Integers, Sequences, FiniteSets, TLC

VARIABLES
    visio_app,   \* VisioService.visio_app: "None", "App" or "Started"
    documents,   \* the backend's Documents collection, in collection order
    files,       \* the diagram files on disk: path -> saved content
    tempFiles,   \* the temporary files that exist on disk
    req,         \* the request handled last
    res,         \* what that request returned (or that it raised)
    calls,       \* the open / close / unlink / save calls that request made
    log,         \* the instructions that request processed, in order
    wire,        \* what the transport has written for the message in hand
    prev,        \* how the message before it was answered
    trail,       \* the requests a client's session has had answered, in order
    flights      \* the POSTs to /sse that are in hand, one for each client

vars == <<visio_app, documents, files, tempFiles, req, res, calls, log, wire,
          prev, trail, flights>>

----------------------------------------------------------------------------
(* Bounds of the model *)

\* temporary files that can exist at the same time (leaked ones included)
MaxTemp == 1
\* the largest shape ID in a document that stays open after a request (a
\* request that would leave a larger one is not issued)
MaxId == 5
\* documents that can be open in the backend (leaked ones included)
MaxDocs == 2
\* instructions in one instruction list of a batch
MaxInstr == 2
\* triples in one verify_connections request
MaxAttempts == 2
\* clients that post to /sse at the same time
MaxClients == 2

----------------------------------------------------------------------------
(* Generic helpers *)

Max(S) == CHOOSE m \in S : \A k \in S : k <= m

\* "for i in range(1, n + 1): if <test of item i>: ...; break": the first
\* index whose item passes the test, 0 when the loop ends without a break.
\* hits[i] tells whether item i passes.
FirstIdx(hits) ==
    IF \E i \in 1..Len(hits) : hits[i]
    THEN CHOOSE i \in 1..Len(hits) : hits[i] /\ \A j \in 1..(i - 1) : ~hits[j]
    ELSE 0

\* the sequence s without its i-th item
RemoveAt(s, i) == [k \in 1..(Len(s) - 1) |-> IF k < i THEN s[k] ELSE s[k + 1]]

\* the sequences over S of length at most n
SeqsUpTo(S, n) == UNION { [1..k -> S] : k \in 0..n }

----------------------------------------------------------------------------
(* The documents of the model *)

\* A shape as the backend exposes it.  pin is (PinX, PinY) and size is
\* (width, height), both in quarter drawing units (size <<0, 0>>: set
\* by the master), master is "" for a drawn rectangle, connects is the
\* shape's Connects collection: rows [from_sheet, to_sheet] of shape IDs.
Shape(id, name, text, master, pin, size, connects) ==
    [id |-> id, name |-> name, text |-> text, master |-> master,
     pin |-> pin, size |-> size, connects |-> connects]

Page(name, shapes) == [name |-> name, shapes |-> shapes]

\* a diagram with two pages; two shapes of its first page share a name
DocFlow ==
    [pages |-> << Page("Page-1",
                       << Shape(1, "Box", "Start", "", <<20, 18>>, <<8, 4>>, <<>>),
                          Shape(2, "Box", "End", "", <<36, 18>>, <<8, 4>>, <<>>),
                          Shape(3, "Note", "", "", <<20, 34>>, <<8, 4>>, <<>>) >>),
                  Page("Page-2",
                       << Shape(4, "Box", "", "", <<20, 18>>, <<8, 4>>, <<>>) >>) >>,
     masters |-> <<"Process", "Dynamic connector">>,
     nextId |-> 5,
     title |-> ""]

\* a drawing without masters: one page, two shapes left of an earlier edit
DocNet ==
    [pages |-> << Page("Main",
                       << Shape(3, "Sheet.3", "Hub", "", <<20, 18>>, <<8, 4>>, <<>>),
                          Shape(4, "Sheet.4", " ", "", <<36, 18>>, <<8, 4>>, <<>>) >>) >>,
     masters |-> <<>>,
     nextId |-> 5,
     title |-> ""]

\* a drawing to start a diagram in: one empty page and the two masters
DocPlan ==
    [pages |-> << Page("Page-1", <<>>) >>,
     masters |-> <<"Process", "Dynamic connector">>,
     nextId |-> 1,
     title |-> ""]

\* the drawing Documents.Add("") creates: one empty page, no master
DocNew ==
    [pages |-> << Page("Page-1", <<>>) >>,
     masters |-> <<>>,
     nextId |-> 1,
     title |-> ""]

\* A path is the sequence of its components.  Two files share a base name.
PathFlowA == <<"a", "flow.vsdx">>
PathFlowB == <<"b", "flow.vsdx">>
PathGone == <<"a", "gone.vsdx">>

PathPlan == <<"a", "plan.vsdx">>

InitFiles ==
    (PathFlowA :> DocFlow) @@ (PathFlowB :> DocNet) @@ (PathPlan :> DocPlan)

\* the names tempfile.NamedTemporaryFile can hand out: enough of them for a
\* name that no file and no open document carries
TempNames == {<<"tmp", ToString(n) \o ".vsdx">> : n \in 1..(MaxTemp + MaxDocs)}

\* file_path_or_content: a path string or a base64 string.  blob "flow" and
\* "net" encode the two drawings, "junk" decodes to bytes that are no
\* drawing, "bad" is not base64.
PathInput(p) == [kind |-> "path", path |-> p, blob |-> ""]
BlobInput(b) == [kind |-> "content", path |-> <<>>, blob |-> b]

\* os.path.basename
basename(p) == IF Len(p) = 0 THEN "" ELSE p[Len(p)]

\* os.path.exists(file_path_or_content)
exists(fs, input) == input.kind = "path" /\ input.path \in DOMAIN fs

\* base64.b64decode(file_path_or_content): "raise" (binascii.Error), "junk"
\* (bytes that are no drawing) or the content of a drawing.  A string that
\* names no existing file is decoded like any other string.
b64decode(input) ==
    CASE input.kind = "path" -> [ok |-> TRUE, visio |-> FALSE, content |-> DocNew]
      [] input.blob = "flow" -> [ok |-> TRUE, visio |-> TRUE, content |-> DocFlow]
      [] input.blob = "net" -> [ok |-> TRUE, visio |-> TRUE, content |-> DocNet]
      [] input.blob = "junk" -> [ok |-> TRUE, visio |-> FALSE, content |-> DocNew]
      [] OTHER -> [ok |-> FALSE, visio |-> FALSE, content |-> DocNew]

\* tempfile.NamedTemporaryFile(suffix='.vsdx', delete=False): a random name
\* that is not in use, hence not the name of a file deleted earlier that a
\* document left open still carries
NewTemp(temps, docs) ==
    CHOOSE t \in TempNames :
        t \notin temps /\ \A k \in 1..Len(docs) : docs[k].path # t

\* an open document of the backend: Name is the base name of its file
OpenDoc(path, content) ==
    [name |-> basename(path), path |-> path,
     pages |-> content.pages, masters |-> content.masters,
     nextId |-> content.nextId, title |-> content.title]

ContentOf(d) ==
    [pages |-> d.pages, masters |-> d.masters, nextId |-> d.nextId, title |-> d.title]

----------------------------------------------------------------------------
(* The backend call that raises during a request.  at is the call ("none": *)
(* no call raises), close tells whether doc.Close() raises.               *)

Fault(at, close) == [at |-> at, close |-> close]
NoFault == Fault("none", FALSE)

\* a call the request made on the backend or the file system
Call(call, target, raised) == [call |-> call, target |-> target, raised |-> raised]

----------------------------------------------------------------------------
(* Session handling *)

\* _ensure_visio_app.  Without a handle: GetObject attaches to the running
\* application ("App"); when GetObject or the Visible = 1 after it raises,
\* the bare except starts one with Dispatch ("Started"), and RuntimeError
\* is raised when that fails too.  With a handle only Visible = 1 is set.
\* The calls that raise: "init" GetObject and Dispatch, "attach" GetObject
\* alone (no application is running), "visible" the first Visible = 1.
ensure_visio_app(app, fault) ==
    IF app = "None"
    THEN IF fault.at = "init"
         THEN [raised |-> TRUE, app |-> "None"]
         ELSE IF fault.at \in {"attach", "visible"}
         THEN [raised |-> FALSE, app |-> "Started"]
         ELSE [raised |-> FALSE, app |-> "App"]
    ELSE [raised |-> fault.at = "visible", app |-> app]

\* a lookup by the full path of the document instead of its Name
get_document_by_path(docs, file_name) ==
    FirstIdx([i \in 1..Len(docs) |-> docs[i].path = file_name])

\* _get_document_by_name: the first open document whose Name is the base
\* name of file_name, 0 (None) when there is none
get_document_by_name(docs, file_name) ==
    FirstIdx([i \in 1..Len(docs) |-> docs[i].name = basename(file_name)])

\* an open that does not look whether the document is open already
get_or_open_document_unchecked(docs, fs, file_path, fault) ==
    IF fault.at = "open"
    THEN [raised |-> TRUE, docs |-> docs, doc |-> 0, opened |-> FALSE,
          calls |-> << Call("Open", file_path, TRUE) >>]
    ELSE [raised |-> FALSE, docs |-> Append(docs, OpenDoc(file_path, fs[file_path])),
          doc |-> Len(docs) + 1, opened |-> TRUE,
          calls |-> << Call("Open", file_path, FALSE) >>]

\* _get_or_open_document: (doc, should_close_doc); Documents.Open may raise
get_or_open_document(docs, fs, file_path, fault) ==
    LET found == get_document_by_name(docs, file_path) IN
    IF found # 0
    THEN [raised |-> FALSE, docs |-> docs, doc |-> found, opened |-> FALSE,
          calls |-> <<>>]
    ELSE IF fault.at = "open"
    THEN [raised |-> TRUE, docs |-> docs, doc |-> 0, opened |-> FALSE,
          calls |-> << Call("Open", file_path, TRUE) >>]
    ELSE [raised |-> FALSE, docs |-> Append(docs, OpenDoc(file_path, fs[file_path])),
          doc |-> Len(docs) + 1, opened |-> TRUE,
          calls |-> << Call("Open", file_path, FALSE) >>]

\* The head of the try block of analyze_visio_diagram, modify_visio_diagram
\* and verify_connections (the same code in the three): the document of the
\* request, reused, opened from the path, or opened from a temporary file
\* holding the decoded content.
Acquire(app, docs, fs, temps, input, fault) ==
    LET e == ensure_visio_app(app, fault)
        none == [raised |-> TRUE, app |-> e.app, docs |-> docs, temps |-> temps,
                 temp_file |-> <<>>, doc |-> 0, should_close_doc |-> FALSE,
                 is_content |-> FALSE, calls |-> <<>>]
    IN
    IF e.raised THEN none
    ELSE IF exists(fs, input)
    THEN LET g == get_or_open_document(docs, fs, input.path, fault) IN
         [none EXCEPT !.raised = g.raised, !.docs = g.docs, !.doc = g.doc,
                      !.should_close_doc = g.opened, !.calls = g.calls]
    ELSE LET b == b64decode(input)
             t == NewTemp(temps, docs)
         IN
         IF ~b.ok THEN [none EXCEPT !.is_content = TRUE]
         ELSE IF fault.at = "open" \/ ~b.visio
         THEN [none EXCEPT !.temps = temps \cup {t}, !.temp_file = t,
                           !.is_content = TRUE,
                           !.calls = << Call("Open", t, TRUE) >>]
         ELSE [none EXCEPT !.raised = FALSE,
                           !.docs = Append(docs, OpenDoc(t, b.content)),
                           !.temps = temps \cup {t}, !.temp_file = t,
                           !.doc = Len(docs) + 1, !.should_close_doc = TRUE,
                           !.is_content = TRUE,
                           !.calls = << Call("Open", t, FALSE) >>]

\* the guard without its last test: every document the request opened
ShouldCloseOpened(doc, should_close_doc, temp_file) ==
    doc # 0 /\ should_close_doc

\* "if doc is not None and should_close_doc and temp_file is not None"
ShouldClose(doc, should_close_doc, temp_file) ==
    doc # 0 /\ should_close_doc /\ temp_file # <<>>

\* The finally block of the three handlers: unlink the temporary file, then
\* close the document when ShouldClose; both failures are swallowed.  The
\* unlink is taken to succeed; a Close that raises leaves the document open.
Release(docs, temps, temp_file, doc, should_close_doc, fault) ==
    LET closing == ShouldClose(doc, should_close_doc, temp_file) IN
    [docs |-> IF closing /\ ~fault.close THEN RemoveAt(docs, doc) ELSE docs,
     temps |-> IF temp_file # <<>> THEN temps \ {temp_file} ELSE temps,
     calls |-> (IF temp_file # <<>>
                THEN << Call("unlink", temp_file, FALSE) >> ELSE <<>>)
               \o (IF closing
                   THEN << Call("Close", docs[doc].path, fault.close) >> ELSE <<>>)]

----------------------------------------------------------------------------
(* The backend's document primitives.  d is a document (its pages,         *)
(* masters and ID counter), p a page index, j a shape index on that page.  *)

\* the backend names a new shape: a drawn shape is "Sheet.<ID>", the first
\* instance of a master on a page carries the master's name, later ones
\* "<master>.<ID>"
NewShapeName(page, master, id) ==
    IF master = "" THEN "Sheet." \o ToString(id)
    ELSE IF \E k \in 1..Len(page.shapes) : page.shapes[k].name = master
    THEN master \o "." \o ToString(id)
    ELSE master

AppendShape(d, p, shape) ==
    [d EXCEPT !.pages[p].shapes = Append(@, shape), !.nextId = @ + 1]

\* Coordinates reach the backend in quarter drawing units (Q), so that
\* the centre of a 2 x 1 rectangle and the midpoint of two pins are integers.
Q(x) == 4 * x

\* page.DrawRectangle(x1, y1, x2, y2): pinned at its centre
DrawRectangle(d, p, x1, y1, x2, y2) ==
    AppendShape(d, p, Shape(d.nextId, NewShapeName(d.pages[p], "", d.nextId), "", "",
                            <<(x1 + x2) \div 2, (y1 + y2) \div 2>>,
                            <<x2 - x1, y2 - y1>>, <<>>))

\* page.Drop(master, x, y): an instance of the master pinned at (x, y)
Drop(d, p, master, x, y) ==
    AppendShape(d, p, Shape(d.nextId, NewShapeName(d.pages[p], master, d.nextId), "",
                            master, <<x, y>>, <<0, 0>>, <<>>))

\* shape.Text = text
SetText(d, p, j, text) == [d EXCEPT !.pages[p].shapes[j].text = text]

\* shape.XYPosition(x, y)
XYPosition(d, p, j, x, y) == [d EXCEPT !.pages[p].shapes[j].pin = <<x, y>>]

\* a deletion that takes the connectors glued to the shape with it
DeleteCascading(d, p, j) ==
    LET gone == d.pages[p].shapes[j].id
    IN [d EXCEPT !.pages[p].shapes =
            SelectSeq(@, LAMBDA sh :
                /\ sh.id # gone
                /\ \A r \in 1..Len(sh.connects) : sh.connects[r].to # gone)]

\* shape.Delete(): the shape leaves its page, and with it the Connect rows
\* of the page's connectors that were glued to it
Delete(d, p, j) ==
    LET gone == d.pages[p].shapes[j].id
        rest == RemoveAt(d.pages[p].shapes, j)
    IN [d EXCEPT !.pages[p].shapes =
            [k \in 1..Len(rest) |->
                [rest[k] EXCEPT !.connects =
                    SelectSeq(@, LAMBDA c : c.from # gone /\ c.to # gone)]]]

\* connector.CellsU(...).GlueTo(shape.CellsSRC(1, 1, 0)): one more Connect
\* row on the connector, from the connector to the shape
GlueTo(d, p, j, to_id) ==
    [d EXCEPT !.pages[p].shapes[j].connects =
        Append(@, [from |-> d.pages[p].shapes[j].id, to |-> to_id])]

----------------------------------------------------------------------------
(* Page and shape resolution of the mutation engine *)

\* "if page_name: for ... if Item(i).Name == page_name: page = Item(i);
\* break / else: page = doc.Pages.Item(page_index)".  Pages.Item raises
\* (a COM error) for an index that is no page of the document.
ResolvePage(d, page_name, page_index) ==
    IF page_name # ""
    THEN [raised |-> FALSE,
          page |-> FirstIdx([i \in 1..Len(d.pages) |-> d.pages[i].name = page_name])]
    ELSE IF page_index \in 1..Len(d.pages)
    THEN [raised |-> FALSE, page |-> page_index]
    ELSE [raised |-> TRUE, page |-> 0]

\* a lookup that tries the name before the identifier
FindShapeByNameFirst(shapes, shape_id, shape_name) ==
    IF shape_name # ""
    THEN FirstIdx([i \in 1..Len(shapes) |-> shapes[i].name = shape_name])
    ELSE IF shape_id # 0
    THEN FirstIdx([i \in 1..Len(shapes) |-> shapes[i].id = shape_id])
    ELSE 0

\* a lookup that falls back to the name when no shape has the identifier
FindShapeOrNamed(shapes, shape_id, shape_name) ==
    IF shape_id # 0 /\ \E i \in 1..Len(shapes) : shapes[i].id = shape_id
    THEN FirstIdx([i \in 1..Len(shapes) |-> shapes[i].id = shape_id])
    ELSE IF shape_name # ""
    THEN FirstIdx([i \in 1..Len(shapes) |-> shapes[i].name = shape_name])
    ELSE 0

\* "if shape_id: for ... ID == shape_id ... break / elif shape_name: for ...
\* Name == shape_name ... break": the shape's index on the page, 0 (None)
\* when it is not resolved
FindShape(shapes, shape_id, shape_name) ==
    IF shape_id # 0
    THEN FirstIdx([i \in 1..Len(shapes) |-> shapes[i].id = shape_id])
    ELSE IF shape_name # ""
    THEN FirstIdx([i \in 1..Len(shapes) |-> shapes[i].name = shape_name])
    ELSE 0

----------------------------------------------------------------------------
(* The mutation engine: one instruction.  Each step gives the document     *)
(* after the instruction, whether a backend call raised, and what was done *)
(* (outcome, the resolved page, the shape created or touched).  The        *)
(* mutating call of a phase raises when the request's fault names the      *)
(* phase.  A step is written as a chain of operators, one per stage of the *)
(* loop body: the resolved page r, then the resolved shape j, ...          *)

Out(raised, d, outcome, page, target) ==
    [raised |-> raised, d |-> d, outcome |-> outcome, page |-> page,
     target |-> target]

\* "if text: shape.Text = text" on the shape just placed, the last of page p
WithText(placed, p, text) ==
    IF text # "" THEN SetText(placed, p, Len(placed.pages[p].shapes), text)
    ELSE placed

\* _add_shapes, on page p: m is the index of the named master (0: not found)
AddShapeOn(d, ins, fault, p, m) ==
    IF ins.master # "" /\ m = 0 THEN Out(FALSE, d, "master_not_found", p, 0)
    ELSE IF fault.at = "add_shapes" THEN Out(TRUE, d, "raised", p, 0)
    ELSE IF ins.master # ""
    THEN Out(FALSE,
             WithText(Drop(d, p, d.masters[m], Q(ins.x), Q(ins.y)), p, ins.text),
             "applied", p, d.nextId)
    ELSE Out(FALSE,
             WithText(DrawRectangle(d, p, Q(ins.x), Q(ins.y),
                                    Q(ins.x + 2), Q(ins.y + 1)), p, ins.text),
             "applied", p, d.nextId)

\* _add_shapes, after the page lookup r
AddShapeAt(d, ins, fault, r) ==
    IF r.raised THEN Out(TRUE, d, "raised", 0, 0)
    ELSE IF r.page = 0 THEN Out(FALSE, d, "page_not_found", 0, 0)
    ELSE AddShapeOn(d, ins, fault, r.page,
                    FirstIdx([i \in 1..Len(d.masters) |-> d.masters[i] = ins.master]))

\* the body of the loop of _add_shapes
AddShapeStep(d, ins, fault) ==
    AddShapeAt(d, ins, fault, ResolvePage(d, ins.page_name, ins.page_index))

\* an update that moves the shape whether or not a position is given
WithPositionAlways(d, p, j, ins) == XYPosition(d, p, j, Q(ins.x), Q(ins.y))

\* "if 'position' in shape_info: ... if x is not None and y is not None"
WithPosition(d, p, j, ins) ==
    IF ins.position = "xy" THEN XYPosition(d, p, j, Q(ins.x), Q(ins.y)) ELSE d

\* _update_shapes, on page p: j is the index of the resolved shape
UpdateShapeOn(d, ins, fault, p, j) ==
    IF j = 0 THEN Out(FALSE, d, "shape_not_found", p, 0)
    ELSE IF fault.at = "update_shapes" /\ (ins.has_text \/ ins.position = "xy")
    THEN Out(TRUE, d, "raised", p, d.pages[p].shapes[j].id)
    ELSE Out(FALSE,
             WithPosition(IF ins.has_text THEN SetText(d, p, j, ins.text) ELSE d,
                          p, j, ins),
             "applied", p, d.pages[p].shapes[j].id)

\* _update_shapes, after the page lookup r
UpdateShapeAt(d, ins, fault, r) ==
    IF r.raised THEN Out(TRUE, d, "raised", 0, 0)
    ELSE IF r.page = 0 THEN Out(FALSE, d, "page_not_found", 0, 0)
    ELSE UpdateShapeOn(d, ins, fault, r.page,
                       FindShape(d.pages[r.page].shapes, ins.shape_id, ins.shape_name))

\* the body of the loop of _update_shapes
UpdateShapeStep(d, ins, fault) ==
    UpdateShapeAt(d, ins, fault, ResolvePage(d, ins.page_name, ins.page_index))

\* _delete_shapes, on page p: j is the index of the resolved shape
DeleteShapeOn(d, ins, fault, p, j) ==
    IF j = 0 THEN Out(FALSE, d, "shape_not_found", p, 0)
    ELSE IF fault.at = "delete_shapes"
    THEN Out(TRUE, d, "raised", p, d.pages[p].shapes[j].id)
    ELSE Out(FALSE, Delete(d, p, j), "applied", p, d.pages[p].shapes[j].id)

\* _delete_shapes, after the page lookup r
DeleteShapeAt(d, ins, fault, r) ==
    IF r.raised THEN Out(TRUE, d, "raised", 0, 0)
    ELSE IF r.page = 0 THEN Out(FALSE, d, "page_not_found", 0, 0)
    ELSE DeleteShapeOn(d, ins, fault, r.page,
                       FindShape(d.pages[r.page].shapes, ins.shape_id, ins.shape_name))

\* the body of the loop of _delete_shapes
DeleteShapeStep(d, ins, fault) ==
    DeleteShapeAt(d, ins, fault, ResolvePage(d, ins.page_name, ins.page_index))

\* the connector dropped on page p is the page's last shape: glue its begin
\* to from_id and its end to to_id, then "if 'text' in connection_info"
Glued(dropped, p, c, from_id, to_id, ins) ==
    IF ins.has_text
    THEN SetText(GlueTo(GlueTo(dropped, p, c, from_id), p, c, to_id), p, c, ins.text)
    ELSE GlueTo(GlueTo(dropped, p, c, from_id), p, c, to_id)

\* "connector = page.Drop(doc.Masters.ItemU("Dynamic connector"), ...)" at
\* the midpoint of the two pins, and the two GlueTo.  Masters.ItemU raises
\* when the document has no such master (m = 0).
Connect(d, ins, fault, p, from, to, m) ==
    IF m = 0 \/ fault.at = "add_connections" THEN Out(TRUE, d, "raised", p, 0)
    ELSE Out(FALSE,
             Glued(Drop(d, p, d.masters[m], (from.pin[1] + to.pin[1]) \div 2,
                        (from.pin[2] + to.pin[2]) \div 2),
                   p, Len(d.pages[p].shapes) + 1, from.id, to.id, ins),
             "applied", p, d.nextId)

\* _add_connections, on page p: jf and jt are the indices of the resolved
\* from-shape and to-shape
AddConnectionOn(d, ins, fault, p, jf, jt) ==
    IF jf = 0 THEN Out(FALSE, d, "from_not_found", p, 0)
    ELSE IF jt = 0 THEN Out(FALSE, d, "to_not_found", p, 0)
    ELSE Connect(d, ins, fault, p, d.pages[p].shapes[jf], d.pages[p].shapes[jt],
                 FirstIdx([i \in 1..Len(d.masters) |->
                              d.masters[i] = "Dynamic connector"]))

\* _add_connections looking its ends up on every page of the document
AddConnectionAtAcross(d, ins, fault, r) ==
    IF r.raised THEN Out(TRUE, d, "raised", 0, 0)
    ELSE IF r.page = 0 THEN Out(FALSE, d, "page_not_found", 0, 0)
    ELSE LET all == d.pages[1].shapes
                    \o (IF Len(d.pages) > 1 THEN d.pages[2].shapes ELSE <<>>)
             jf == FindShape(all, ins.from_shape_id, ins.from_shape_name)
             jt == FindShape(all, ins.to_shape_id, ins.to_shape_name)
         IN IF jf = 0 THEN Out(FALSE, d, "from_not_found", r.page, 0)
            ELSE IF jt = 0 THEN Out(FALSE, d, "to_not_found", r.page, 0)
            ELSE Connect(d, ins, fault, r.page, all[jf], all[jt],
                         FirstIdx([i \in 1..Len(d.masters) |->
                                      d.masters[i] = "Dynamic connector"]))

\* _add_connections, after the page lookup r
AddConnectionAt(d, ins, fault, r) ==
    IF r.raised THEN Out(TRUE, d, "raised", 0, 0)
    ELSE IF r.page = 0 THEN Out(FALSE, d, "page_not_found", 0, 0)
    ELSE AddConnectionOn(d, ins, fault, r.page,
             FindShape(d.pages[r.page].shapes, ins.from_shape_id, ins.from_shape_name),
             FindShape(d.pages[r.page].shapes, ins.to_shape_id, ins.to_shape_name))

\* the body of the loop of _add_connections
AddConnectionStep(d, ins, fault) ==
    AddConnectionAt(d, ins, fault, ResolvePage(d, ins.page_name, ins.page_index))

Step(phase, d, ins, fault) ==
    CASE phase = "add_shapes" -> AddShapeStep(d, ins, fault)
      [] phase = "update_shapes" -> UpdateShapeStep(d, ins, fault)
      [] phase = "delete_shapes" -> DeleteShapeStep(d, ins, fault)
      [] OTHER -> AddConnectionStep(d, ins, fault)

\* what the engine did with one instruction
LogEntry(phase, ins, o, before) ==
    [phase |-> phase, ins |-> ins, outcome |-> o.outcome, page |-> o.page,
     target |-> o.target, before |-> before.pages, after |-> o.d.pages]

\* the state of a loop whose step swallows a raise and goes on
AfterSwallowing(st, phase, ins, o) ==
    [raised |-> FALSE, d |-> o.d,
     log |-> Append(st.log, LogEntry(phase, ins, o, st.d))]

\* the state of a loop after the step o of instruction ins
After(st, phase, ins, o) ==
    [raised |-> o.raised, d |-> o.d,
     log |-> Append(st.log, LogEntry(phase, ins, o, st.d))]

\* "for shape_info in shapes_info: ...": the instructions of one list in
\* list order; a raise ends the loop.  st is [raised, d, log].
RECURSIVE ApplyList(_, _, _, _, _)
ApplyList(st, phase, list, i, fault) ==
    IF st.raised \/ i > Len(list) THEN st
    ELSE ApplyList(After(st, phase, list[i], Step(phase, st.d, list[i], fault)),
                   phase, list, i + 1, fault)

----------------
(* The mutation engine: a batch.  modification_instructions is a dict: its *)
(* keys in insertion order, each with its instruction list.                *)

\* the phases with the connections made before the deletions
PhaseOrderConnectingFirst ==
    <<"add_shapes", "update_shapes", "add_connections", "delete_shapes">>

PhaseOrder == <<"add_shapes", "update_shapes", "delete_shapes", "add_connections">>

Batch(lists, return_content) == [lists |-> lists, return_content |-> return_content]

\* key in modification_instructions
HasKey(batch, key) == \E i \in 1..Len(batch.lists) : batch.lists[i].key = key

\* modification_instructions[key]
Get(batch, key) ==
    batch.lists[CHOOSE i \in 1..Len(batch.lists) : batch.lists[i].key = key].list

\* the keys of the batch in the order the dict has them
BatchKeys(batch) == [i \in 1..Len(batch.lists) |-> batch.lists[i].key]

\* the four "if <key> in modification_instructions" of modify_visio_diagram,
\* in the order the code tests them
BatchPhases(batch) == SelectSeq(PhaseOrder, LAMBDA k : HasKey(batch, k))

RECURSIVE ApplyPhases(_, _, _, _)
ApplyPhases(st, batch, phases, fault) ==
    IF phases = <<>> THEN st
    ELSE ApplyPhases(ApplyList(st, Head(phases), Get(batch, Head(phases)), 1, fault),
                     batch, Tail(phases), fault)

\* _add_shapes, _update_shapes, _delete_shapes, _add_connections as
\* modify_visio_diagram calls them
ApplyBatch(d, batch, fault) ==
    ApplyPhases([raised |-> FALSE, d |-> d, log |-> <<>>], batch,
                BatchPhases(batch), fault)

----------------------------------------------------------------------------
(* The analysis reports *)

\* str.strip() on the texts of the model: " " is the only blank text
strip(text) == IF text = " " THEN "" ELSE text

\* f[1] + ... + f[n]
RECURSIVE Sum(_, _)
Sum(f, n) == IF n = 0 THEN 0 ELSE f[n] + Sum(f, n - 1)

\* a report whose total is assigned, not accumulated: the count of the
\* last page
analyze_diagram_structure_assigning(d) ==
    LET page_info(pg) ==
            [name |-> pg.name, shapes_count |-> Len(pg.shapes),
             shapes |-> [j \in 1..Len(pg.shapes) |->
                            [name |-> pg.shapes[j].name, text |-> pg.shapes[j].text,
                             id |-> pg.shapes[j].id]]]
        infos == [i \in 1..Len(d.pages) |-> page_info(d.pages[i])]
    IN [pages |-> infos,
        total_shapes |-> IF Len(infos) = 0 THEN 0
                         ELSE infos[Len(infos)].shapes_count]

\* _analyze_diagram_structure
analyze_diagram_structure(d) ==
    LET page_info(pg) ==
            [name |-> pg.name, shapes_count |-> Len(pg.shapes),
             shapes |-> [j \in 1..Len(pg.shapes) |->
                            [name |-> pg.shapes[j].name, text |-> pg.shapes[j].text,
                             id |-> pg.shapes[j].id]]]
        infos == [i \in 1..Len(d.pages) |-> page_info(d.pages[i])]
    IN [pages |-> infos,
        total_shapes |-> Sum([i \in 1..Len(infos) |-> infos[i].shapes_count],
                             Len(infos))]

\* the name of the sheet with this ID (from_sheet.Name, to_sheet.Name)
SheetName(pg, id) ==
    LET j == FirstIdx([i \in 1..Len(pg.shapes) |-> pg.shapes[i].id = id]) IN
    IF j = 0 THEN "" ELSE pg.shapes[j].name

\* the record of one shape with Connects.Count > 0: connects_from and
\* connects_to are the sheet, other than the shape itself, of the last
\* Connect row that has one ([id |-> 0]: None)
connection_info(pg, sh) ==
    LET n == Len(sh.connects)
        froms == {k \in 1..n : sh.connects[k].from # sh.id}
        tos == {k \in 1..n : sh.connects[k].to # sh.id}
        sheet(id) == [id |-> id, name |-> SheetName(pg, id)]
    IN [connector_id |-> sh.id, connector_name |-> sh.name, text |-> sh.text,
        connects_from |-> IF froms = {} THEN [id |-> 0, name |-> ""]
                          ELSE sheet(sh.connects[Max(froms)].from),
        connects_to |-> IF tos = {} THEN [id |-> 0, name |-> ""]
                        ELSE sheet(sh.connects[Max(tos)].to)]

\* a report without the test "shape.Connects.Count > 0": a record for
\* every shape of the page
analyze_diagram_connections_every_shape(d) ==
    LET page_info(pg) ==
            [name |-> pg.name,
             connections |->
                [k \in 1..Len(pg.shapes) |-> connection_info(pg, pg.shapes[k])]]
        infos == [i \in 1..Len(d.pages) |-> page_info(d.pages[i])]
    IN [pages |-> infos,
        total_connections |-> Sum([i \in 1..Len(infos) |-> Len(infos[i].connections)],
                                  Len(infos))]

\* _analyze_diagram_connections
analyze_diagram_connections(d) ==
    LET emitted(pg, sh) ==
            /\ Len(sh.connects) > 0
            /\ \/ connection_info(pg, sh).connects_from.id # 0
               \/ connection_info(pg, sh).connects_to.id # 0
        page_info(pg) ==
            [name |-> pg.name,
             connections |->
                LET kept == SelectSeq(pg.shapes, LAMBDA sh : emitted(pg, sh)) IN
                [k \in 1..Len(kept) |-> connection_info(pg, kept[k])]]
        infos == [i \in 1..Len(d.pages) |-> page_info(d.pages[i])]
    IN [pages |-> infos,
        total_connections |-> Sum([i \in 1..Len(infos) |-> Len(infos[i].connections)],
                                  Len(infos))]

\* _analyze_diagram_text
analyze_diagram_text(d) ==
    LET page_info(pg) ==
            [name |-> pg.name,
             text_shapes |->
                LET kept == SelectSeq(pg.shapes, LAMBDA sh : strip(sh.text) # "") IN
                [k \in 1..Len(kept) |->
                    [id |-> kept[k].id, name |-> kept[k].name,
                     text |-> strip(kept[k].text)]]]
        infos == [i \in 1..Len(d.pages) |-> page_info(d.pages[i])]
    IN [pages |-> infos,
        total_text_shapes |-> Sum([i \in 1..Len(infos) |-> Len(infos[i].text_shapes)],
                                  Len(infos))]

AnalysisTypes == {"structure", "connections", "text"}

\* "if analysis_type == ...: analysis_results = self._analyze_...(doc)"
AnalysisResults(d, analysis_type) ==
    CASE analysis_type = "structure" -> analyze_diagram_structure(d)
      [] analysis_type = "connections" -> analyze_diagram_connections(d)
      [] OTHER -> analyze_diagram_text(d)

----------------------------------------------------------------------------
(* The connection verifier *)

\* dict.get(key, default) of a report or a record of a report
DictGet(dict, key, default) == IF key \in DOMAIN dict THEN dict[key] ELSE default

\* An identifier of a connection attempt is a JSON value: a string or a
\* number.  str(shape.ID) is a string, and a string never equals a number.
StrId(n) == [t |-> "str", v |-> n]
IntId(n) == [t |-> "int", v |-> n]
NoneId == [t |-> "none", v |-> 0]
str(id) == StrId(id)

Attempt(from_shape_id, to_shape_id, page_name) ==
    [from_shape_id |-> from_shape_id, to_shape_id |-> to_shape_id,
     page_name |-> page_name]

\* "for i in range(1, page.Shapes.Count + 1): ... if shape_id ==
\* from_shape_id: from_shape = shape / elif shape_id == to_shape_id:
\* to_shape = shape / if both found: break".  f and t are the shapes found
\* so far (indices, 0 for None).
RECURSIVE ScanShapes(_, _, _, _, _, _)
ScanShapes(shapes, i, from_shape_id, to_shape_id, f, t) ==
    IF i > Len(shapes) \/ (f # 0 /\ t # 0) THEN [from_shape |-> f, to_shape |-> t]
    ELSE IF str(shapes[i].id) = from_shape_id
    THEN ScanShapes(shapes, i + 1, from_shape_id, to_shape_id, i, t)
    ELSE IF str(shapes[i].id) = to_shape_id
    THEN ScanShapes(shapes, i + 1, from_shape_id, to_shape_id, f, i)
    ELSE ScanShapes(shapes, i + 1, from_shape_id, to_shape_id, f, t)

\* _validate_shapes_for_connection; a backend call that raises in it is
\* caught there
validate_shapes_for_connection(d, from_shape_id, to_shape_id, page_name, fault) ==
    LET page == FirstIdx([i \in 1..Len(d.pages) |-> d.pages[i].name = page_name])
        found == ScanShapes(d.pages[page].shapes, 1, from_shape_id, to_shape_id, 0, 0)
    IN
    IF fault.at = "validate" THEN [valid |-> FALSE, message |-> "error_validating"]
    ELSE IF page = 0 THEN [valid |-> FALSE, message |-> "page_not_found"]
    ELSE IF found.from_shape = 0
    THEN [valid |-> FALSE, message |-> "source_not_found"]
    ELSE IF found.to_shape = 0
    THEN [valid |-> FALSE, message |-> "target_not_found"]
    ELSE [valid |-> TRUE, message |-> "shapes_valid"]

\* the body of "for attempt in connection_attempts": one verification record
VerifyAttempt(d, existing_connections, attempt, fault) ==
    LET shape_validation ==
            validate_shapes_for_connection(d, attempt.from_shape_id,
                                           attempt.to_shape_id, attempt.page_name, fault)
    IN [from_shape_id |-> attempt.from_shape_id,
        to_shape_id |-> attempt.to_shape_id,
        page_name |-> attempt.page_name,
        connection_exists |->
            \E k \in 1..Len(existing_connections) :
                /\ DictGet(existing_connections[k], "from_shape_id", NoneId)
                       = attempt.from_shape_id
                /\ DictGet(existing_connections[k], "to_shape_id", NoneId)
                       = attempt.to_shape_id
                /\ DictGet(existing_connections[k], "page_name", "")
                       = attempt.page_name,
        shapes_valid |-> shape_validation.valid,
        validation_message |-> shape_validation.message]

\* the records of the triples, last triple first
VerifyBodyReversed(d, connection_attempts, fault) ==
    [k \in 1..Len(connection_attempts) |->
        VerifyAttempt(d, <<>>,
                      connection_attempts[Len(connection_attempts) + 1 - k], fault)]

\* the try block of verify_connections after the document is there
VerifyBody(d, connection_attempts, fault) ==
    LET connections_analysis == analyze_diagram_connections(d)
        existing_connections == DictGet(connections_analysis, "connections", <<>>)
    IN [k \in 1..Len(connection_attempts) |->
            VerifyAttempt(d, existing_connections, connection_attempts[k], fault)]

----------------------------------------------------------------------------
(* The request handlers.  Each gives the state after the request: the      *)
(* application handle, the open documents, the files, the temporary files, *)
(* the returned dict (res), the calls made and the instruction log.        *)

Result(status, message) ==
    [status |-> status, message |-> message, propagated |-> FALSE,
     results |-> <<>>, has_file_content |-> FALSE, file_content |-> <<>>,
     file_path |-> <<>>, verification_results |-> <<>>]

Handled(app, docs, fs, temps, result, made, entries) ==
    [app |-> app, docs |-> docs, fs |-> fs, temps |-> temps, res |-> result,
     calls |-> made, log |-> entries]

\* analyze_visio_diagram from the document a on: the branch on the
\* analysis type, then the finally block
AnalyzeAcquired(a, fs, analysis_type, fault) ==
    LET result ==
            IF a.raised THEN Result("error", "exception")
            ELSE IF analysis_type \notin AnalysisTypes
            THEN Result("error", "unknown_analysis_type")
            ELSE IF fault.at = "body" THEN Result("error", "exception")
            ELSE [Result("success", "") EXCEPT
                     !.results = AnalysisResults(a.docs[a.doc], analysis_type)]
        r == Release(a.docs, a.temps, a.temp_file, a.doc, a.should_close_doc, fault)
    IN Handled(a.app, r.docs, fs, r.temps, result, a.calls \o r.calls, <<>>)

\* a handler that tests the analysis type before it begins: an unknown
\* type is refused without touching the backend
AnalyzeHandlerTypeFirst(app, docs, fs, temps, input, analysis_type, fault) ==
    LET a == Acquire(app, docs, fs, temps, input, fault)
        result ==
            IF a.raised THEN Result("error", "exception")
            ELSE IF fault.at = "body" THEN Result("error", "exception")
            ELSE [Result("success", "") EXCEPT
                     !.results = AnalysisResults(a.docs[a.doc], analysis_type)]
        r == Release(a.docs, a.temps, a.temp_file, a.doc, a.should_close_doc, fault)
    IN IF analysis_type \notin AnalysisTypes
       THEN Handled(app, docs, fs, temps, Result("error", "unknown_analysis_type"),
                    <<>>, <<>>)
       ELSE Handled(a.app, r.docs, fs, r.temps, result, a.calls \o r.calls, <<>>)

\* analyze_visio_diagram
AnalyzeHandler(app, docs, fs, temps, input, analysis_type, fault) ==
    AnalyzeAcquired(Acquire(app, docs, fs, temps, input, fault), fs, analysis_type,
                    fault)

\* modify_visio_diagram from the applied batch b on.  doc.Save() writes
\* the document to its own file (for content the SaveAs after it writes the
\* same temporary file again); the content returned is read from
\* output_path: the temporary file, or the path the request named.
ModifyApplied(a, b, fs, input, batch, fault) ==
    LET docs1 == [a.docs EXCEPT ![a.doc] = b.d]
        applied == ~a.raised /\ ~b.raised
        saved == applied /\ fault.at # "save"
        path == docs1[a.doc].path
        fs1 == IF saved /\ path \in DOMAIN fs
               THEN [fs EXCEPT ![path] = ContentOf(docs1[a.doc])] ELSE fs
        with_content == a.is_content \/ batch.return_content
        result ==
            IF ~saved THEN Result("error", "exception")
            ELSE [Result("success", "modified") EXCEPT
                     !.has_file_content = with_content,
                     !.file_content =
                        IF ~with_content THEN <<>>
                        ELSE IF a.is_content THEN ContentOf(docs1[a.doc])
                        ELSE fs1[input.path],
                     !.file_path = IF a.is_content THEN <<>> ELSE input.path]
        docs2 == IF a.raised THEN a.docs ELSE docs1
        r == Release(docs2, a.temps, a.temp_file, a.doc, a.should_close_doc, fault)
    IN Handled(a.app, r.docs, fs1, r.temps, result,
               a.calls \o (IF applied THEN << Call("Save", path, ~saved) >> ELSE <<>>)
                       \o r.calls,
               IF a.raised THEN <<>> ELSE b.log)

\* modify_visio_diagram: the document, then the batch on it
ModifyHandler(app, docs, fs, temps, input, batch, fault) ==
    LET a == Acquire(app, docs, fs, temps, input, fault)
    IN ModifyApplied(a, ApplyBatch(a.docs[a.doc], batch, fault), fs, input, batch,
                     fault)

\* verify_connections from the document a on
VerifyAcquired(a, fs, connection_attempts, fault) ==
    LET result ==
            IF a.raised \/ fault.at = "body" THEN Result("error", "exception")
            ELSE [Result("success", "") EXCEPT
                     !.verification_results =
                        VerifyBody(a.docs[a.doc], connection_attempts, fault)]
        r == Release(a.docs, a.temps, a.temp_file, a.doc, a.should_close_doc, fault)
    IN Handled(a.app, r.docs, fs, r.temps, result, a.calls \o r.calls, <<>>)

\* a verifier that writes its verdict into the document it examined
VerifyHandlerMarking(app, docs, fs, temps, input, connection_attempts, fault) ==
    LET a == Acquire(app, docs, fs, temps, input, fault)
        result ==
            IF a.raised \/ fault.at = "body" THEN Result("error", "exception")
            ELSE [Result("success", "") EXCEPT
                     !.verification_results =
                        VerifyBody(a.docs[a.doc], connection_attempts, fault)]
        marked == IF a.raised THEN a.docs
                  ELSE [a.docs EXCEPT ![a.doc].title = "verified"]
        r == Release(marked, a.temps, a.temp_file, a.doc, a.should_close_doc, fault)
    IN Handled(a.app, r.docs, fs, r.temps, result, a.calls \o r.calls, <<>>)

\* verify_connections
VerifyHandler(app, docs, fs, temps, input, connection_attempts, fault) ==
    VerifyAcquired(Acquire(app, docs, fs, temps, input, fault), fs,
                   connection_attempts, fault)


\* the body of "for i in range(1, len(pages_info))" of _generate_pages
RECURSIVE GenerateMorePages(_, _, _, _)
GenerateMorePages(st, pages_info, i, fault) ==
    IF st.raised \/ i > Len(pages_info) THEN st
    ELSE LET added == [st EXCEPT !.d.pages = Append(@, Page(pages_info[i].name, <<>>))]
             shaped == ApplyList(added, "add_shapes", pages_info[i].shapes, 1, fault)
         IN GenerateMorePages(
                ApplyList(shaped, "add_connections", pages_info[i].connections, 1, fault),
                pages_info, i + 1, fault)

\* _generate_pages: drop every page but the first, rename the first after
\* the first entry, fill it, then add one page for each further entry
generate_pages(d, pages_info, fault) ==
    LET kept == [d EXCEPT !.pages = IF Len(@) > 1 THEN << @[1] >> ELSE @]
        st0 == [raised |-> FALSE, d |-> kept, log |-> <<>>]
        first ==
            IF Len(kept.pages) > 0 /\ Len(pages_info) > 0
            THEN LET named == [st0 EXCEPT !.d.pages[1].name = pages_info[1].name]
                     shaped == ApplyList(named, "add_shapes", pages_info[1].shapes,
                                         1, fault)
                 IN ApplyList(shaped, "add_connections", pages_info[1].connections,
                              1, fault)
            ELSE st0
    IN GenerateMorePages(first, pages_info, 2, fault)

\* the file name of the drawing Documents.Add("") creates
NewDrawing(docs) ==
    LET free == {n \in 1..(Len(docs) + 1) :
                    \A k \in 1..Len(docs) : docs[k].name # "Drawing" \o ToString(n)}
    IN << "Drawing" \o ToString(CHOOSE n \in free : \A m \in free : n <= m) >>

\* generate_visio_diagram.  template is a path, <<>> for None.
\* Documents.Open on a file that is open already gives that document.  In
\* the finally block doc.Close() is not guarded: when it raises, the
\* exception leaves the handler and the unlink after it is not reached.
GenerateFilled(e, docs, fs, temps, template, fault, docs1, doc, g) ==
    LET use_template == template # <<>> /\ template \in DOMAIN fs
        opened == ~e.raised /\ fault.at # "open"
        t == NewTemp(temps, docs1)
        have_temp == opened /\ ~g.raised
        saved == have_temp /\ fault.at # "save"
        d2 == IF saved THEN [g.d EXCEPT !.path = t, !.name = basename(t)] ELSE g.d
        docs2 == [docs1 EXCEPT ![doc] = d2]
        result ==
            IF saved
            THEN [Result("success", "generated") EXCEPT
                     !.has_file_content = TRUE, !.file_content = ContentOf(d2)]
            ELSE Result("error", "exception")
        escapes == opened /\ fault.close
    IN Handled(e.app,
               IF ~opened THEN docs ELSE IF fault.close THEN docs2
               ELSE RemoveAt(docs2, doc),
               fs,
               IF have_temp /\ escapes THEN temps \cup {t} ELSE temps,
               [result EXCEPT !.propagated = escapes],
               (IF e.raised THEN <<>>
                ELSE << Call(IF use_template THEN "Open" ELSE "Add",
                             IF use_template THEN template ELSE NewDrawing(docs),
                             ~opened) >>)
               \o (IF have_temp THEN << Call("SaveAs", t, ~saved) >> ELSE <<>>)
               \o (IF opened THEN << Call("Close", d2.path, fault.close) >> ELSE <<>>)
               \o (IF have_temp /\ ~escapes
                   THEN << Call("unlink", t, FALSE) >> ELSE <<>>),
               IF opened THEN g.log ELSE <<>>)

\* generate_visio_diagram: the drawing to start from (docs1[doc]) with its
\* title, the pages generated in it (g), then the rest of the handler
GenerateHandler(app, docs, fs, temps, instructions, template, fault) ==
    LET use_template == template # <<>> /\ template \in DOMAIN fs
        already == FirstIdx([i \in 1..Len(docs) |-> docs[i].path = template])
        docs1 == IF use_template
                 THEN IF already # 0 THEN docs
                      ELSE Append(docs, OpenDoc(template, fs[template]))
                 ELSE Append(docs, OpenDoc(NewDrawing(docs), DocNew))
        doc == IF use_template /\ already # 0 THEN already ELSE Len(docs) + 1
        titled == IF instructions.has_title
                  THEN [docs1[doc] EXCEPT !.title = instructions.title]
                  ELSE docs1[doc]
    IN GenerateFilled(ensure_visio_app(app, fault), docs, fs, temps, template, fault,
                      docs1, doc,
                      IF instructions.has_pages
                      THEN generate_pages(titled, instructions.pages, fault)
                      ELSE [raised |-> FALSE, d |-> titled, log |-> <<>>])

----------------------------------------------------------------------------
(* The state machine: a request is served by its handler as one step; the  *)
(* reply is then handed back and the service is idle again.                *)

IdleReq == [op |-> "idle"]

Clients == 1..MaxClients

\* a POST in hand: its body is being read ("reading") or its message has
\* been processed ("processed"); among is the number of the other POSTs
\* whose bodies were being read when it was processed, opened whether its
\* handler opened the file it names
Flight(stage, input, among, opened) ==
    [stage |-> stage, input |-> input, among |-> among, opened |-> opened]
NoFlight == Flight("none", <<>>, 0, FALSE)

Init ==
    /\ visio_app = "None"
    /\ documents = <<>>
    /\ files = InitFiles
    /\ tempFiles = {}
    /\ req = IdleReq
    /\ res = Result("", "")
    /\ calls = <<>>
    /\ log = <<>>
    /\ wire = <<>>
    /\ prev = [n |-> 0, code |-> 0]
    /\ trail = <<>>
    /\ flights = [c \in Clients |-> NoFlight]

\* the largest shape ID in use in the open documents
IdsWithin(docs) == \A k \in 1..Len(docs) : docs[k].nextId <= MaxId + 1

Serve(request, h) ==
    /\ req = IdleReq
    /\ Len(h.docs) <= MaxDocs
    /\ IdsWithin(h.docs)
    /\ visio_app' = h.app
    /\ documents' = h.docs
    /\ files' = h.fs
    /\ tempFiles' = h.temps
    /\ req' = request
    /\ res' = h.res
    /\ calls' = h.calls
    /\ log' = h.log
    /\ UNCHANGED <<wire, prev, trail, flights>>

\* the requests that can arrive, out of S: none while a request is being
\* served (the transports hand over one message at a time)
Arriving(S) == IF req = IdleReq THEN S ELSE {}

\* a request that may create a temporary file needs a free name
TempFree(input) == exists(files, input) \/ Cardinality(tempFiles) < MaxTemp

Analyze(input, analysis_type, fault) ==
    /\ TempFree(input)
    /\ Serve([op |-> "analyze", input |-> input, analysis_type |-> analysis_type,
              fault |-> fault],
             AnalyzeHandler(visio_app, documents, files, tempFiles, input,
                            analysis_type, fault))

Modify(input, batch, fault) ==
    /\ TempFree(input)
    /\ Serve([op |-> "modify", input |-> input, batch |-> batch, fault |-> fault],
             ModifyHandler(visio_app, documents, files, tempFiles, input, batch,
                           fault))

Verify(input, connection_attempts, fault) ==
    /\ TempFree(input)
    /\ Serve([op |-> "verify", input |-> input,
              connection_attempts |-> connection_attempts, fault |-> fault],
             VerifyHandler(visio_app, documents, files, tempFiles, input,
                           connection_attempts, fault))

Generate(instructions, template, fault) ==
    /\ Cardinality(tempFiles) < MaxTemp
    /\ Serve([op |-> "generate", instructions |-> instructions,
              template |-> template, fault |-> fault],
             GenerateHandler(visio_app, documents, files, tempFiles, instructions,
                             template, fault))

\* the reply has been handed to the caller
Return ==
    /\ req # IdleReq
    /\ req' = IdleReq
    /\ res' = Result("", "")
    /\ calls' = <<>>
    /\ log' = <<>>
    /\ UNCHANGED <<visio_app, documents, files, tempFiles, wire, prev, trail,
                   flights>>

----------------------------------------------------------------------------
(* The requests of the model *)

\* the (page_name, page_index) of an instruction: a page by name, a name
\* that is no page, no name and the default index, no name and an index
\* that is no page
PageRefs == { <<"Page-1", 1>>, <<"Nope", 1>>, <<"", 1>>, <<"", 9>> }

\* the (shape_id, shape_name) of an instruction: both given (they name
\* different shapes of DocFlow), a name two shapes carry, an ID that is no
\* shape with a name that is one, a name that is no shape, neither
ShapeRefs == { <<3, "Box">>, <<0, "Box">>, <<9, "Box">>, <<0, "Zed">>, <<0, "">> }

AddInstr(ref, master, text) ==
    [page_name |-> ref[1], page_index |-> ref[2], master |-> master,
     x |-> 4, y |-> 6, text |-> text]

UpdateInstr(ref, shape, has_text, position) ==
    [page_name |-> ref[1], page_index |-> ref[2],
     shape_id |-> shape[1], shape_name |-> shape[2],
     has_text |-> has_text, text |-> IF has_text THEN "New" ELSE "",
     position |-> position, x |-> 8, y |-> 2]

DeleteInstr(ref, shape) ==
    [page_name |-> ref[1], page_index |-> ref[2],
     shape_id |-> shape[1], shape_name |-> shape[2]]

ConnInstr(ref, from, to, has_text) ==
    [page_name |-> ref[1], page_index |-> ref[2],
     from_shape_id |-> from[1], from_shape_name |-> from[2],
     to_shape_id |-> to[1], to_shape_name |-> to[2],
     has_text |-> has_text, text |-> IF has_text THEN "flow" ELSE ""]

Entry(key, list) == [key |-> key, list |-> list]

FileInputs ==
    { PathInput(PathFlowA), PathInput(PathFlowB), PathInput(PathGone),
      BlobInput("flow"), BlobInput("bad") }

\* at most one call raises in a request: one of ats, or doc.Close()
Faults(ats) ==
    { Fault(at, FALSE) : at \in ats \cup {"none"} } \cup { Fault("none", TRUE) }

\* the batches of the session requests
SessionBatches ==
    { Batch(<<>>, FALSE),
      Batch(<< Entry("update_shapes",
                     << UpdateInstr(<<"", 1>>, <<0, "Box">>, TRUE, "absent") >>) >>,
            TRUE) }

SessionAttempts ==
    { <<>>, << Attempt(StrId(1), StrId(2), "Page-1") >> }

PageInfo(name, shapes, connections) ==
    [name |-> name, shapes |-> shapes, connections |-> connections]

Instructions(has_title, has_pages, pages) ==
    [has_title |-> has_title, title |-> IF has_title THEN "Plan" ELSE "",
     has_pages |-> has_pages, pages |-> pages]

GenerateInstructions ==
    { Instructions(FALSE, FALSE, <<>>),
      Instructions(TRUE, TRUE,
                   << PageInfo("First", << AddInstr(<<"First", 1>>, "", "T") >>, <<>>),
                      PageInfo("Second", <<>>, <<>>) >>) }

Templates == { <<>>, PathFlowA, PathGone }

AnalyzeSession ==
    \E input \in Arriving(FileInputs),
       analysis_type \in AnalysisTypes \cup {"bogus"},
       fault \in Faults({"init", "open", "body"}) :
         Analyze(input, analysis_type, fault)

ModifySession ==
    \E input \in Arriving(FileInputs), batch \in SessionBatches,
       fault \in Faults({"init", "open", "update_shapes", "save"}) :
         Modify(input, batch, fault)

VerifySession ==
    \E input \in Arriving(FileInputs), connection_attempts \in SessionAttempts,
       fault \in Faults({"init", "open", "body", "validate"}) :
         Verify(input, connection_attempts, fault)

GenerateSession ==
    \E instructions \in Arriving(GenerateInstructions), template \in Templates,
       fault \in Faults({"init", "open", "add_shapes", "save"}) :
         Generate(instructions, template, fault)

Next ==
    \/ AnalyzeSession
    \/ ModifySession
    \/ VerifySession
    \/ GenerateSession
    \/ Return

\* the document sessions: requests of the four handlers on paths and on
\* content, with a backend call that may raise
Spec == Init /\ [][Next]_vars

----------------------------------------------------------------------------
(* The batches of the mutation engine *)

AddPool ==
    { AddInstr(ref, master, text) :
        ref \in PageRefs, master \in {"", "Process", "Nope"}, text \in {"", "T"} }

UpdatePool ==
    { UpdateInstr(ref, shape, has_text, position) :
        ref \in PageRefs, shape \in ShapeRefs, has_text \in BOOLEAN,
        position \in {"absent", "x_only", "xy"} }

DeletePool == { DeleteInstr(ref, shape) : ref \in PageRefs, shape \in ShapeRefs }

ConnPool ==
    { ConnInstr(ref, from, to, has_text) :
        ref \in PageRefs, from \in ShapeRefs, to \in ShapeRefs, has_text \in BOOLEAN }

Pool(key) ==
    CASE key = "add_shapes" -> AddPool
      [] key = "update_shapes" -> UpdatePool
      [] key = "delete_shapes" -> DeletePool
      [] OTHER -> ConnPool

\* the instructions of the longer lists: one whose page index is no page,
\* one whose page name is no page, one that cannot find its master or its
\* shape, and one that applies
CorePool(key) ==
    CASE key = "add_shapes" ->
            { AddInstr(<<"", 9>>, "", "T"), AddInstr(<<"Nope", 1>>, "", "T"),
              AddInstr(<<"", 1>>, "Nope", "T"), AddInstr(<<"", 1>>, "", "T") }
      [] key = "update_shapes" ->
            { UpdateInstr(<<"", 9>>, <<3, "">>, TRUE, "absent"),
              UpdateInstr(<<"", 1>>, <<9, "">>, TRUE, "absent"),
              UpdateInstr(<<"", 1>>, <<3, "">>, TRUE, "xy") }
      [] key = "delete_shapes" ->
            { DeleteInstr(<<"", 9>>, <<3, "">>), DeleteInstr(<<"", 1>>, <<9, "">>),
              DeleteInstr(<<"", 1>>, <<3, "">>) }
      [] OTHER ->
            { ConnInstr(<<"", 9>>, <<3, "">>, <<0, "Box">>, FALSE),
              ConnInstr(<<"", 1>>, <<3, "">>, <<9, "">>, FALSE),
              ConnInstr(<<"", 1>>, <<3, "">>, <<0, "Box">>, TRUE) }

\* connections with an end on another page than the instruction's: shape 4
\* of the diagram is on its second page, shapes 1 and 3 on its first
CrossPool ==
    { ConnInstr(<<"", 1>>, <<3, "">>, <<4, "">>, FALSE),
      ConnInstr(<<"", 2>>, <<1, "">>, <<4, "">>, FALSE),
      ConnInstr(<<"Page-2", 1>>, <<4, "">>, <<0, "Box">>, FALSE) }

\* the list of a key in a batch of several keys: the shape the batch adds
\* (ID 5 in both drawings) is the one it updates, deletes and connects
KeyList(key) ==
    CASE key = "add_shapes" -> << AddInstr(<<"", 1>>, "", "T") >>
      [] key = "update_shapes" -> << UpdateInstr(<<"", 1>>, <<5, "">>, TRUE, "absent") >>
      [] key = "delete_shapes" -> << DeleteInstr(<<"", 1>>, <<5, "">>) >>
      [] OTHER -> << ConnInstr(<<"", 1>>, <<3, "">>, <<5, "">>, FALSE) >>

\* the keys of a batch of several keys, in every order a dict can have
KeyOrders ==
    { o \in UNION { [1..n -> {PhaseOrder[i] : i \in 1..4}] : n \in 2..4 } :
        \A i, j \in 1..Len(o) : o[i] = o[j] => i = j }

EngineBatches ==
    UNION { { Batch(<< Entry(PhaseOrder[i], << ins >>) >>, FALSE) :
                ins \in Pool(PhaseOrder[i]) } : i \in 1..4 }
    \cup UNION { { Batch(<< Entry(PhaseOrder[i], list) >>, FALSE) :
                     list \in SeqsUpTo(CorePool(PhaseOrder[i]), MaxInstr) } :
                 i \in 1..4 }
    \cup { Batch([i \in 1..Len(o) |-> Entry(o[i], KeyList(o[i]))], FALSE) :
             o \in KeyOrders }
    \cup { Batch(<< Entry("add_connections", list) >>, FALSE) :
             list \in SeqsUpTo(CrossPool, MaxInstr) }

ModifyEngine ==
    \E blob \in Arriving({"flow", "net"}), batch \in EngineBatches :
        Modify(BlobInput(blob), batch, NoFault)

NextEngine ==
    \/ ModifyEngine
    \/ Return

\* the mutation engine: every batch on the content of the two drawings
SpecEngine == Init /\ [][NextEngine]_vars

----------------------------------------------------------------------------
(* The requests of the verifier *)

\* connections a modify request adds to the first page of a/flow.vsdx
ConnBatches ==
    { Batch(<< Entry("add_connections",
                     << ConnInstr(<<"Page-1", 1>>, from, to, FALSE) >>) >>, FALSE) :
        from \in {<<1, "">>}, to \in {<<2, "">>, <<0, "Note">>} }

\* the triples of a request: identifiers as strings and as numbers, the two
\* ends the same shape, a shape of another page, a page and a shape that
\* do not exist
AttemptPool ==
    { Attempt(StrId(1), StrId(2), "Page-1"), Attempt(IntId(1), IntId(2), "Page-1"),
      Attempt(StrId(2), StrId(1), "Page-1"), Attempt(StrId(1), StrId(1), "Page-1"),
      Attempt(StrId(1), StrId(4), "Page-1"), Attempt(StrId(9), StrId(1), "Page-1"),
      Attempt(StrId(1), StrId(2), "Nope") }

\* the drawing the connections were added to, a drawing without any, and a
\* string that is no drawing
VerifyInputs == { PathInput(PathFlowA), BlobInput("flow"), BlobInput("bad") }

ModifyConnect ==
    \E batch \in Arriving(ConnBatches) :
        Modify(PathInput(PathFlowA), batch, NoFault)

VerifyConnect ==
    \E input \in Arriving(VerifyInputs),
       connection_attempts \in SeqsUpTo(AttemptPool, MaxAttempts),
       fault \in Faults({"init", "open", "body", "validate"}) :
         Verify(input, connection_attempts, fault)

NextVerify ==
    \/ ModifyConnect
    \/ VerifyConnect
    \/ Return

\* the verifier: connections added to a drawing, then verified
SpecVerify == Init /\ [][NextVerify]_vars

----------------------------------------------------------------------------
(* The file handlers and get_active_document                               *)

\* os.path.dirname
dirname(p) == IF Len(p) = 0 THEN <<>> ELSE SubSeq(p, 1, Len(p) - 1)

\* save_visio_file: decode, make the directory, write the file.
\* os.makedirs("") raises for a path without a directory part.  file_content
\* is a base64 string (see b64decode).
SaveHandler(app, docs, fs, temps, file_content, file_path) ==
    LET b == b64decode(BlobInput(file_content))
        written == b.ok /\ dirname(file_path) # <<>>
        result == IF written
                  THEN [Result("success", "saved") EXCEPT !.file_path = file_path]
                  ELSE Result("error", "exception")
    IN Handled(app, docs,
               IF written THEN (file_path :> b.content) @@ fs ELSE fs,
               temps, result,
               IF written THEN << Call("write", file_path, FALSE) >> ELSE <<>>,
               <<>>)

\* load_visio_file: the content of an existing file, base64-encoded
LoadHandler(app, docs, fs, temps, file_path) ==
    LET result ==
            IF file_path \notin DOMAIN fs THEN Result("error", "file_not_found")
            ELSE [Result("success", "loaded") EXCEPT
                     !.file_path = file_path, !.has_file_content = TRUE,
                     !.file_content = fs[file_path]]
    IN Handled(app, docs, fs, temps, result, <<>>, <<>>)

\* the dict get_active_document builds for a document
doc_info(d) ==
    [name |-> d.name, pages_count |-> Len(d.pages),
     pages |-> [i \in 1..Len(d.pages) |->
                   [name |-> d.pages[i].name,
                    shapes_count |-> Len(d.pages[i].shapes)]]]

\* a handler that closes the document it has reported
ActiveHandlerClosing(app, docs, fs, temps, active, fault) ==
    LET e == ensure_visio_app(app, fault)
        doc == IF Len(docs) > 0 /\ fault.at # "active" THEN active ELSE 0
        result ==
            IF e.raised \/ fault.at = "body" THEN Result("error", "exception")
            ELSE IF doc = 0 THEN Result("error", "no_active_document")
            ELSE [Result("success", "active") EXCEPT
                     !.file_path = docs[doc].path, !.results = doc_info(docs[doc])]
    IN Handled(e.app, IF result.status = "success" THEN RemoveAt(docs, doc) ELSE docs,
               fs, temps, result, <<>>, <<>>)

\* get_active_document.  active is the document the backend holds active
\* (an index into Documents); fault "active": reading ActiveDocument raises
\* and _get_active_document gives None.
ActiveHandler(app, docs, fs, temps, active, fault) ==
    LET e == ensure_visio_app(app, fault)
        doc == IF Len(docs) > 0 /\ fault.at # "active" THEN active ELSE 0
        result ==
            IF e.raised \/ fault.at = "body" THEN Result("error", "exception")
            ELSE IF doc = 0 THEN Result("error", "no_active_document")
            ELSE [Result("success", "active") EXCEPT
                     !.file_path = docs[doc].path, !.results = doc_info(docs[doc])]
    IN Handled(e.app, docs, fs, temps, result, <<>>, <<>>)

----------------------------------------------------------------------------
(* The AI collaborator (ollama_service.py) as the dispatcher uses it       *)

\* check_ollama_available: the answer of the collaborator's /api/tags, FALSE
\* when the request raises.  up is the collaborator's state.
check_ollama_available(up) == up

\* ollama_service.chat_stream(messages, model, context): class OllamaService
\* defines no chat_stream (its methods are check_ollama_available,
\* ask_about_visio, ask_about_visio_stream, generate_diagram_instructions and
\* modify_diagram_instructions), so the attribute lookup raises
\* AttributeError before any chunk is received.  chunks is what the
\* collaborator would send.
chat_stream(chunks) == [raised |-> TRUE, chunks |-> <<>>]

----------------------------------------------------------------------------
(* The dispatcher (server.py)                                              *)

\* error codes of the envelopes
MethodNotFound == -32601
InternalError == -32603
ParseError == -32700

StreamingMethod == "ask_ai_about_visio"

\* the method set of process_message
MethodSet ==
    {"health", "ping", "save_visio_file", "load_visio_file",
     "analyze_visio_diagram", "verify_connections", "modify_visio_diagram",
     "generate_visio_diagram", "get_active_document", StreamingMethod}

\* the methods that read mcp_params
ReadsParams ==
    MethodSet \ {"health", "ping", "get_active_document"}

\* A response envelope.  key is "result" or "error"; a result is a dict
\* (result), the string "pong" (text) or a chunk of the collaborator (chunk);
\* has_id tells whether the envelope carries the request's "id".
Envelope(key, code, message) ==
    [key |-> key, code |-> code, message |-> message, text |-> "",
     result |-> Result("", ""), chunk |-> <<>>, has_id |-> FALSE, id |-> 0]

ResultEnvelope(result) == [Envelope("result", 0, <<>>) EXCEPT !.result = result]
ErrorEnvelope(code, message) == Envelope("error", code, message)

\* {"error": {"code": -32603, "message": f"Internal error: {str(e)}"}}
InternalErrorEnvelope(e) == ErrorEnvelope(InternalError, <<"Internal error", e>>)

\* the "health" branch
health(up) ==
    LET services_status == [visio |-> TRUE, ollama |-> check_ollama_available(up)]
    IN [Result(IF services_status.visio /\ services_status.ollama
               THEN "healthy" ELSE "degraded", "") EXCEPT
           !.results = services_status]

\* what a branch of process_message leaves: the state of the service, the
\* dict the component returned (res), and the envelope returned; status is
\* for the transport to set
Dispatched(h, envelope) ==
    [app |-> h.app, docs |-> h.docs, fs |-> h.fs, temps |-> h.temps,
     res |-> h.res, calls |-> h.calls, log |-> h.log, envelopes |-> << envelope >>,
     status |-> 0]

\* a component call without the except clause around it: an exception of
\* the component leaves process_message and no envelope is returned
ComponentUnguarded(h) ==
    [Dispatched(h, ResultEnvelope(h.res)) EXCEPT
        !.envelopes = IF h.res.propagated THEN <<>> ELSE @]

\* a component call of process_message: "result = visio_service.f(...);
\* return {"result": result}", and the except clause when f raises
Component(h) ==
    Dispatched(h, IF h.res.propagated THEN InternalErrorEnvelope("exception")
                  ELSE ResultEnvelope(h.res))

\* a branch that calls no component
Untouched(app, docs, fs, temps, envelope) ==
    Dispatched(Handled(app, docs, fs, temps, Result("", ""), <<>>, <<>>), envelope)

\* A decoded JSON value is a record with a field json: "object" for a dict
\* (its keys are the other fields), anything else for a value that is no
\* dict.  What the environment decides during a request is env: the backend
\* call that raises (fault), whether the collaborator answers (up), the
\* document the backend holds active (active) and the chunks the
\* collaborator would stream (chunks).
IsDict(value) == value.json = "object"

Env(fault, up, active, chunks) ==
    [fault |-> fault, up |-> up, active |-> active, chunks |-> chunks]

\* the branches of process_message that call the Visio service
VisioBranch(app, docs, fs, temps, mcp_method, mcp_params, env) ==
    CASE mcp_method = "save_visio_file" ->
            SaveHandler(app, docs, fs, temps, mcp_params.file_content,
                        mcp_params.file_path)
      [] mcp_method = "load_visio_file" ->
            LoadHandler(app, docs, fs, temps, mcp_params.file_path)
      [] mcp_method = "analyze_visio_diagram" ->
            AnalyzeHandler(app, docs, fs, temps, mcp_params.file_path_or_content,
                           DictGet(mcp_params, "analysis_type", "structure"),
                           env.fault)
      [] mcp_method = "verify_connections" ->
            VerifyHandler(app, docs, fs, temps, mcp_params.file_path_or_content,
                          DictGet(mcp_params, "connection_attempts", <<>>),
                          env.fault)
      [] mcp_method = "modify_visio_diagram" ->
            ModifyHandler(app, docs, fs, temps, mcp_params.file_path_or_content,
                          mcp_params.modification_instructions, env.fault)
      [] mcp_method = "generate_visio_diagram" ->
            GenerateHandler(app, docs, fs, temps, mcp_params.instructions,
                            DictGet(mcp_params, "template", <<>>), env.fault)
      [] mcp_method = "get_active_document" ->
            ActiveHandler(app, docs, fs, temps, env.active, env.fault)

\* the "ask_ai_about_visio" branch of process_message: every chunk is
\* collected and the last one is returned
AskBuffered(app, docs, fs, temps, env) ==
    LET stream == chat_stream(env.chunks)
        responses == stream.chunks
    IN Untouched(app, docs, fs, temps,
                 IF stream.raised THEN InternalErrorEnvelope("exception")
                 ELSE [Envelope("result", 0, <<>>) EXCEPT
                          !.chunk = IF responses # <<>>
                                    THEN << responses[Len(responses)] >>
                                    ELSE <<>>])

\* process_message: one envelope for a decoded message.  message.get and
\* mcp_params.get raise AttributeError on a value that is no dict.
process_message(app, docs, fs, temps, message, env) ==
    IF ~IsDict(message)
    THEN Untouched(app, docs, fs, temps, InternalErrorEnvelope("exception"))
    ELSE LET mcp_method == DictGet(message, "method", "None")
             mcp_params == DictGet(message, "params", [json |-> "object"])
         IN
         IF mcp_method = "health"
         THEN Dispatched(Handled(app, docs, fs, temps, Result("", ""),
                                 << Call("ollama", <<"api", "tags">>, ~env.up) >>,
                                 <<>>),
                         ResultEnvelope(health(env.up)))
         ELSE IF mcp_method = "ping"
         THEN Untouched(app, docs, fs, temps,
                        [Envelope("result", 0, <<>>) EXCEPT !.text = "pong"])
         ELSE IF mcp_method \in ReadsParams /\ ~IsDict(mcp_params)
         THEN Untouched(app, docs, fs, temps, InternalErrorEnvelope("exception"))
         ELSE IF mcp_method = StreamingMethod
         THEN AskBuffered(app, docs, fs, temps, env)
         ELSE IF mcp_method \in MethodSet
         THEN Component(VisioBranch(app, docs, fs, temps, mcp_method, mcp_params,
                                    env))
         ELSE Untouched(app, docs, fs, temps,
                        ErrorEnvelope(MethodNotFound,
                                      <<"Method not found", mcp_method>>))

\* the envelopes "yield {"id": message.get("id"), "result": chunk}" gives
\* for the chunks of a stream
ChunkEnvelopes(message, chunks) ==
    [i \in 1..Len(chunks) |->
        [Envelope("result", 0, <<>>) EXCEPT
            !.has_id = "id" \in DOMAIN message,
            !.id = DictGet(message, "id", 0),
            !.chunk = << chunks[i] >>]]

\* the stream process_stream_message iterates: mcp_params.get raises when
\* mcp_params is no dict
StreamOf(message, env) ==
    IF IsDict(DictGet(message, "params", [json |-> "object"]))
    THEN chat_stream(env.chunks)
    ELSE [raised |-> TRUE, chunks |-> <<>>]

\* the generator without its except clause: when the stream raises, the
\* exception ends the generator and no envelope follows the chunks
process_stream_message_unguarded(app, docs, fs, temps, message, env) ==
    IF DictGet(message, "method", "None") = StreamingMethod
    THEN [Untouched(app, docs, fs, temps, Envelope("result", 0, <<>>)) EXCEPT
             !.envelopes = ChunkEnvelopes(message, StreamOf(message, env).chunks)]
    ELSE process_message(app, docs, fs, temps, message, env)

\* process_stream_message: for the streaming method one envelope for each
\* chunk, carrying the request's id, and the envelope of the except clause
\* when the stream raises; for any other method what process_message gives
process_stream_message(app, docs, fs, temps, message, env) ==
    IF DictGet(message, "method", "None") = StreamingMethod
    THEN [Untouched(app, docs, fs, temps, Envelope("result", 0, <<>>)) EXCEPT
             !.envelopes =
                ChunkEnvelopes(message, StreamOf(message, env).chunks)
                \o (IF StreamOf(message, env).raised
                    THEN << InternalErrorEnvelope("exception") >> ELSE <<>>)]
    ELSE process_message(app, docs, fs, temps, message, env)

\* json.loads(line) and request.json(): text is what the transport received,
\* "malformed" when it is no JSON
json_loads(text) ==
    [raised |-> text.json = "malformed", value |-> text]

\* what a transport leaves for one message: the state of the service, the
\* envelopes written and the HTTP status of the reply (0 on stdio)
Transported(d, status) == [d EXCEPT !.status = status]

\* the loop body with its except clauses in the other order: "except
\* Exception" comes first and takes the JSONDecodeError as well
run_stdio_transport_catch_all(app, docs, fs, temps, line, env) ==
    IF json_loads(line).raised
    THEN Transported(Untouched(app, docs, fs, temps,
                               InternalErrorEnvelope("exception")), 0)
    ELSE Transported(process_message(app, docs, fs, temps, json_loads(line).value,
                                     env), 0)

\* a loop body that skips a line it cannot decode and prints nothing for it
run_stdio_transport_silent(app, docs, fs, temps, line, env) ==
    IF json_loads(line).raised
    THEN [Transported(Untouched(app, docs, fs, temps,
                                ErrorEnvelope(ParseError, <<"Parse error">>)), 0)
             EXCEPT !.envelopes = <<>>]
    ELSE Transported(process_message(app, docs, fs, temps, json_loads(line).value,
                                     env), 0)

\* the body of the loop of run_stdio_transport: one printed line for a line
\* read
run_stdio_transport(app, docs, fs, temps, line, env) ==
    IF json_loads(line).raised
    THEN Transported(Untouched(app, docs, fs, temps,
                               ErrorEnvelope(ParseError, <<"Parse error">>)), 0)
    ELSE Transported(process_message(app, docs, fs, temps, json_loads(line).value,
                                     env), 0)

\* an exception that leaves sse_endpoint: the framework answers 500 and no
\* event is sent
ServerError(app, docs, fs, temps) ==
    [Transported(Untouched(app, docs, fs, temps, Envelope("", 0, <<>>)), 500)
        EXCEPT !.envelopes = <<>>]

\* an endpoint that hands every message to process_stream_message and
\* lets that one answer an unknown method by the catch-all internal error
sse_endpoint_catch_all(app, docs, fs, temps, body, env) ==
    IF json_loads(body).raised \/ ~IsDict(json_loads(body).value)
    THEN ServerError(app, docs, fs, temps)
    ELSE IF DictGet(json_loads(body).value, "method", "None") \in MethodSet
    THEN Transported(process_stream_message(app, docs, fs, temps,
                                            json_loads(body).value, env), 200)
    ELSE Transported(Untouched(app, docs, fs, temps,
                               InternalErrorEnvelope("exception")), 200)

\* sse_endpoint: "await request.json()" and "message.get" are outside any
\* try; the events of the response are the envelopes
sse_endpoint(app, docs, fs, temps, body, env) ==
    IF json_loads(body).raised \/ ~IsDict(json_loads(body).value)
    THEN ServerError(app, docs, fs, temps)
    ELSE IF DictGet(json_loads(body).value, "method", "None") = StreamingMethod
    THEN Transported(process_stream_message(app, docs, fs, temps,
                                            json_loads(body).value, env), 200)
    ELSE Transported(process_message(app, docs, fs, temps, json_loads(body).value,
                                     env), 200)

----------------------------------------------------------------------------
(* The transports as a state machine: a line read from stdin, or the body  *)
(* of a POST to /sse, is handled as one step; the reply is then handed     *)
(* over and the next message is taken.                                     *)

\* how a message was answered: the number of envelopes written and the
\* error code of the last one (0: a result, or no envelope)
Answer(envelopes) ==
    [n |-> Len(envelopes),
     code |-> IF envelopes = <<>> THEN 0 ELSE envelopes[Len(envelopes)].code]

Transports == {"stdio", "sse"}

\* JSON texts: an object with the given keys, a value that is no object,
\* and a text that is no JSON
Object(method, params) == [json |-> "object", method |-> method, params |-> params]
Identified(message, id) == [k \in DOMAIN message \cup {"id"} |->
                               IF k = "id" THEN id ELSE message[k]]
NoObject == [json |-> "array"]
Malformed == [json |-> "malformed"]

MethodOf(text) ==
    IF IsDict(text) THEN DictGet(text, "method", "None") ELSE "None"

\* a message whose handler may create a temporary file needs a free name
Servable(text) ==
    LET mcp_method == MethodOf(text) IN
    IF ~IsDict(text) \/ ~IsDict(DictGet(text, "params", [json |-> "object"]))
    THEN TRUE
    ELSE IF mcp_method \in {"analyze_visio_diagram", "verify_connections",
                            "modify_visio_diagram"}
    THEN TempFree(text.params.file_path_or_content)
    ELSE IF mcp_method = "generate_visio_diagram"
    THEN Cardinality(tempFiles) < MaxTemp
    ELSE TRUE

Deliver(request, t) ==
    /\ req = IdleReq
    /\ Len(t.docs) <= MaxDocs
    /\ IdsWithin(t.docs)
    /\ visio_app' = t.app
    /\ documents' = t.docs
    /\ files' = t.fs
    /\ tempFiles' = t.temps
    /\ req' = [request EXCEPT !.status = t.status]
    /\ res' = t.res
    /\ calls' = t.calls
    /\ log' = t.log
    /\ wire' = t.envelopes
    /\ UNCHANGED <<prev, trail, flights>>

\* the request as the model records it
Received(transport, text, env) ==
    [op |-> transport, text |-> text, env |-> env, status |-> 0]

\* the reply has been handed over; the transport takes the next message
Answered ==
    /\ req # IdleReq
    /\ req' = IdleReq
    /\ res' = Result("", "")
    /\ calls' = <<>>
    /\ log' = <<>>
    /\ wire' = <<>>
    /\ prev' = Answer(wire)
    /\ UNCHANGED <<visio_app, documents, files, tempFiles, trail, flights>>

\* the messages of the model
Dict(params) == [k \in DOMAIN params \cup {"json"} |->
                    IF k = "json" THEN "object" ELSE params[k]]

VisioMessages ==
    { Object("save_visio_file", Dict([file_content |-> b, file_path |-> p])) :
        b \in {"net", "bad"}, p \in {PathFlowB, <<"solo.vsdx">>} }
    \cup { Object("load_visio_file", Dict([file_path |-> p])) :
             p \in {PathFlowA, PathGone} }
    \cup { Object("analyze_visio_diagram",
                  Dict([file_path_or_content |-> PathInput(PathFlowA)])),
           Object("analyze_visio_diagram",
                  Dict([file_path_or_content |-> BlobInput("flow"),
                        analysis_type |-> "bogus"])),
           Object("verify_connections",
                  Dict([file_path_or_content |-> PathInput(PathFlowA),
                        connection_attempts |->
                            << Attempt(StrId(1), StrId(2), "Page-1") >>])),
           Object("verify_connections",
                  Dict([file_path_or_content |-> BlobInput("bad")])),
           Object("generate_visio_diagram",
                  Dict([instructions |-> Instructions(TRUE, FALSE, <<>>)])),
           [json |-> "object", method |-> "get_active_document"] }
    \cup { Object("modify_visio_diagram",
                  Dict([file_path_or_content |-> PathInput(PathFlowA),
                        modification_instructions |-> batch])) :
             batch \in SessionBatches }

PlainMessages ==
    { [json |-> "object", method |-> "health"],
      Object("ping", NoObject),
      Identified(Object(StreamingMethod, Dict([model |-> "llama3"])), 7),
      Object(StreamingMethod, Dict([model |-> "llama3"])),
      Object(StreamingMethod, NoObject),
      Object("load_visio_file", NoObject),
      Object("frobnicate", Dict([file_path |-> PathFlowA])),
      Object("frobnicate", NoObject),
      [json |-> "object", params |-> Dict([file_path |-> PathFlowA])],
      NoObject,
      Malformed }

\* a chunk as chat_stream would yield it
Chunk(answer_chunk, done) == [answer_chunk |-> answer_chunk, done |-> done]

ChunkStreams ==
    { <<>>, << Chunk("a", FALSE) >>, << Chunk("a", FALSE), Chunk("b", TRUE) >> }

\* the backend calls that can raise in the handler of a method
FaultsOf(mcp_method) ==
    CASE mcp_method = "analyze_visio_diagram" ->
            { Fault(at, FALSE) : at \in {"none", "init", "body"} }
      [] mcp_method = "verify_connections" ->
            { Fault(at, FALSE) : at \in {"none", "open"} }
      [] mcp_method = "modify_visio_diagram" ->
            { Fault(at, FALSE) : at \in {"none", "save"} }
      [] mcp_method = "generate_visio_diagram" -> Faults({"init"})
      [] mcp_method = "get_active_document" ->
            { Fault(at, FALSE) : at \in {"none", "init", "active"} }
      [] OTHER -> { NoFault }

\* what the environment can decide while text is handled
Envs(text) ==
    LET mcp_method == MethodOf(text) IN
    { Env(fault, up, active, chunks) :
        fault \in FaultsOf(mcp_method),
        up \in IF mcp_method = "health" THEN BOOLEAN ELSE {TRUE},
        active \in IF mcp_method = "get_active_document"
                   THEN {1, Len(documents)} \ {0} ELSE {1},
        chunks \in IF mcp_method = StreamingMethod THEN ChunkStreams ELSE {<<>>} }

Messages == VisioMessages \cup PlainMessages

\* a line arrives on stdin
StdioLine ==
    \E text \in Arriving(Messages) : \E env \in Envs(text) :
        /\ Servable(text)
        /\ Deliver(Received("stdio", text, env),
                   run_stdio_transport(visio_app, documents, files, tempFiles,
                                       text, env))

\* a POST arrives at /sse
SsePost ==
    \E text \in Arriving(Messages) : \E env \in Envs(text) :
        /\ Servable(text)
        /\ Deliver(Received("sse", text, env),
                   sse_endpoint(visio_app, documents, files, tempFiles, text, env))

NextDispatch ==
    \/ StdioLine
    \/ SsePost
    \/ Answered

\* the dispatcher behind its two transports
SpecDispatch == Init /\ [][NextDispatch]_vars

----------------------------------------------------------------------------
(* The requests of the deletion sessions *)

\* the shapes of the first page of a/flow.vsdx by identifier, alone or with
\* a name that another shape of the page carries too
IdRefs == { <<1, "Box">>, <<2, "">>, <<3, "Note">> }

\* batches on a/flow.vsdx: a deletion, two updates, a connection, a
\* connection with the deletion of one of its ends (given by identifier, by
\* a name of its own, by a name another shape carries too), an update
\* whose page index is no page after one that applies, a new shape
DeleteBatches ==
    { Batch(<< Entry("delete_shapes", << DeleteInstr(ref, shape) >>) >>, FALSE) :
        ref \in {<<"Page-1", 1>>, <<"", 9>>}, shape \in IdRefs }
    \cup { Batch(<< Entry("update_shapes",
                          << UpdateInstr(<<"", 1>>, <<1, "Box">>, TRUE, "absent"),
                             UpdateInstr(<<"", 1>>, <<3, "Note">>, FALSE, "absent") >>) >>,
                 FALSE),
           Batch(<< Entry("add_connections",
                          << ConnInstr(<<"Page-1", 1>>, <<1, "Box">>, <<2, "">>,
                                       FALSE) >>) >>, FALSE),
           Batch(<< Entry("add_connections",
                          << ConnInstr(<<"Page-1", 1>>, <<2, "">>, <<3, "Note">>,
                                       FALSE) >>),
                    Entry("delete_shapes",
                          << DeleteInstr(<<"Page-1", 1>>, <<3, "Note">>) >>) >>,
                 FALSE),
           Batch(<< Entry("add_connections",
                          << ConnInstr(<<"Page-1", 1>>, <<2, "">>, <<0, "Note">>,
                                       FALSE) >>),
                    Entry("delete_shapes",
                          << DeleteInstr(<<"Page-1", 1>>, <<0, "Note">>) >>) >>,
                 FALSE),
           Batch(<< Entry("delete_shapes",
                          << DeleteInstr(<<"", 1>>, <<0, "Box">>) >>),
                    Entry("add_connections",
                          << ConnInstr(<<"", 1>>, <<0, "Box">>, <<3, "Note">>,
                                       FALSE) >>) >>,
                 FALSE),
           Batch(<< Entry("add_connections",
                          << ConnInstr(<<"Page-1", 1>>, <<1, "Box">>, <<2, "">>,
                                       FALSE) >>),
                    Entry("update_shapes",
                          << UpdateInstr(<<"", 1>>, <<3, "Note">>, TRUE, "absent"),
                             UpdateInstr(<<"", 9>>, <<3, "Note">>, TRUE, "absent") >>) >>,
                 FALSE),
           Batch(<< Entry("add_shapes",
                          << AddInstr(<<"Page-1", 1>>, "Process", "") >>) >>, FALSE) }

\* doc.Save() may raise: the deletion is then in the open document only;
\* so may the Drop or the GlueTo of a connection
ModifyDelete ==
    \E batch \in Arriving(DeleteBatches),
       fault \in { NoFault, Fault("save", FALSE), Fault("add_connections", FALSE) } :
         Modify(PathInput(PathFlowA), batch, fault)

NextDelete ==
    \/ ModifyDelete
    \/ Return

\* the deletion sessions: batch after batch on the file a/flow.vsdx, which
\* stays open between the requests
SpecDelete == Init /\ [][NextDelete]_vars

----------------------------------------------------------------------------
(* A client's session: a few requests on a/plan.vsdx, one after the other, *)
(* each sent when the one before it has been answered                      *)

\* the requests of a session that are answered before its last one
MaxTrail == 2

\* two rectangles with the texts Start and End
StartEnd ==
    Batch(<< Entry("add_shapes", << AddInstr(<<"Page-1", 1>>, "", "Start"),
                                   AddInstr(<<"Page-1", 1>>, "", "End") >>) >>,
          FALSE)

\* a connection with the text "flow" between the shapes named from and to
Flow(from, to) ==
    Batch(<< Entry("add_connections",
                   << ConnInstr(<<"Page-1", 1>>, <<0, from>>, <<0, to>>, TRUE) >>) >>,
          FALSE)

\* one shape with the text "T": a rectangle, or an instance of master
AddOne(master) ==
    Batch(<< Entry("add_shapes", << AddInstr(<<"Page-1", 1>>, master, "T") >>) >>,
          FALSE)

\* the batches of a session: the connection is asked for by the texts of
\* the two rectangles and by the names the backend gave them; the master
\* is none, one of the document, one the document does not have
PlanBatches ==
    { StartEnd, Flow("Start", "End"), Flow("Sheet.1", "Sheet.2") }
    \cup { AddOne(master) : master \in {"", "Process", "Decision"} }

ModifyPlan ==
    \E batch \in Arriving(PlanBatches) :
        /\ Len(trail) <= MaxTrail
        /\ Modify(PathInput(PathPlan), batch, NoFault)

AnalyzePlan ==
    \E analysis_type \in Arriving({"structure", "connections"}) :
        /\ Len(trail) <= MaxTrail
        /\ Analyze(PathInput(PathPlan), analysis_type, NoFault)

\* a request of the session and how it was answered
Exchange(request, result) == [req |-> request, status |-> result.status]

\* the reply has been handed to the client, which goes on with its session
ReturnToClient ==
    /\ req # IdleReq
    /\ Len(trail) < MaxTrail
    /\ trail' = Append(trail, Exchange(req, res))
    /\ req' = IdleReq
    /\ res' = Result("", "")
    /\ calls' = <<>>
    /\ log' = <<>>
    /\ UNCHANGED <<visio_app, documents, files, tempFiles, wire, prev, flights>>

NextScenario ==
    \/ ModifyPlan
    \/ AnalyzePlan
    \/ ReturnToClient

\* the sessions of a client on a/plan.vsdx
SpecScenario == Init /\ [][NextScenario]_vars

----------------------------------------------------------------------------
(* Properties of the document sessions (Spec) *)

\* the handlers that work on the document a request names
DocumentOps == {"analyze", "modify", "verify"}

\* the calls of the request that has just been served
CallsOf(call) == {i \in 1..Len(calls) : calls[i].call = call}

\* C1: a step of analyze_visio_diagram, modify_visio_diagram or
\* verify_connections closes a document only if the request was given
\* content and the document is the one this request opened from its own
\* temporary file.  Every document that was open before the request is
\* still open after it, and a document the request opened from an existing
\* path is left open, whatever the outcome of the request.
C1_ClosesOnlyItsTempDocument ==
    [][(req = IdleReq /\ req'.op \in DocumentOps) =>
          /\ \A i \in 1..Len(calls') :
                calls'[i].call = "Close" =>
                   /\ ~exists(files, req'.input)
                   /\ calls'[i].target \in TempNames
                   /\ \E j \in 1..(i - 1) :
                         calls'[j] = Call("Open", calls'[i].target, FALSE)
                   /\ \A k \in 1..Len(documents) :
                         documents[k].path # calls'[i].target
          /\ \A k \in 1..Len(documents) :
                \E j \in 1..Len(documents') : documents'[j].path = documents[k].path
          /\ \A i \in 1..Len(calls') :
                calls'[i] = Call("Open", req'.input.path, FALSE) =>
                   \E j \in 1..Len(documents') :
                      documents'[j].path = req'.input.path]_vars

\* a modify request opened the document of an existing path, failed at
\* doc.Save(), and the document is still open
C1_Witness ==
    /\ req.op = "modify"
    /\ req.input.kind = "path"
    /\ res.status = "error"
    /\ \E i \in 1..Len(calls) : calls[i] = Call("Open", req.input.path, FALSE)
    /\ \E i \in 1..Len(calls) : calls[i].call = "Save" /\ calls[i].raised
    /\ CallsOf("Close") = {}
    /\ \E k \in 1..Len(documents) : documents[k].path = req.input.path

\* C2: a request of the three handlers that names an existing path reuses
\* the open document whose Name is the base name of the path and opens
\* nothing (owns_handle = false, also when asked again); when there is no
\* such document it opens at most one, exactly one when no call raises;
\* after the request no two open documents have the same path.
C2_OneDocumentPerPath ==
    [][(req = IdleReq /\ req'.op \in DocumentOps /\ exists(files, req'.input)) =>
          LET was == \E k \in 1..Len(documents) :
                        documents[k].name = basename(req'.input.path)
              opens == {i \in 1..Len(calls') : calls'[i].call = "Open"}
          IN /\ was => opens = {} /\ Len(documents') = Len(documents)
             /\ ~was => Cardinality(opens) <= 1
             /\ (~was /\ req'.fault.at \notin {"init", "open"}) =>
                   /\ opens = {CHOOSE i \in opens : TRUE}
                   /\ Len(documents') = Len(documents) + 1
             /\ \A i, j \in 1..Len(documents') :
                   documents'[i].path = documents'[j].path => i = j]_vars

\* a request on b/flow.vsdx was served from the open document of
\* a/flow.vsdx, which has the same base name, without a call to Open
C2_Witness ==
    /\ req.op \in DocumentOps
    /\ req.input = PathInput(PathFlowB)
    /\ res.status = "success"
    /\ CallsOf("Open") = {}
    /\ Len(documents) = 1
    /\ documents[1].path = PathFlowA

\* C3: when a request given content, or a generate request, has returned,
\* no temporary file it used exists any more and no document opened from
\* or saved to such a file is still open.
C3_NothingLeaked ==
    (req.op \in DocumentOps \cup {"generate"}) =>
        \A i \in 1..Len(calls) :
            calls[i].target \in TempNames =>
                /\ calls[i].target \notin tempFiles
                /\ \A k \in 1..Len(documents) : documents[k].path # calls[i].target

----------------------------------------------------------------------------
(* Properties of the mutation engine (SpecEngine) *)

\* the place of a phase in the order add, update, delete, connect
PhaseRank(phase) ==
    CASE phase = "add_shapes" -> 1
      [] phase = "update_shapes" -> 2
      [] phase = "delete_shapes" -> 3
      [] phase = "add_connections" -> 4

\* the number of instructions of a batch
InstructionCount(batch) ==
    Sum([i \in 1..Len(batch.lists) |-> Len(batch.lists[i].list)], Len(batch.lists))

\* an instruction whose page cannot be resolved among pages: a name that
\* matches no page or, without a name, a 1-based index that is out of range
PageUnresolved(ins, pages) ==
    IF ins.page_name # ""
    THEN \A i \in 1..Len(pages) : pages[i].name # ins.page_name
    ELSE ins.page_index \notin 1..Len(pages)

\* the page of an instruction whose page can be resolved
PageOf(ins, pages) ==
    IF ins.page_name # ""
    THEN CHOOSE i \in 1..Len(pages) :
            /\ pages[i].name = ins.page_name
            /\ \A k \in 1..(i - 1) : pages[k].name # ins.page_name
    ELSE ins.page_index

\* the shape an instruction names among shapes: the one with the identifier
\* when an identifier is given, otherwise the first one with the name; 0
\* when there is none
ShapeOf(shapes, shape_id, shape_name) ==
    LET by_id == {j \in 1..Len(shapes) : shapes[j].id = shape_id}
        by_name == {j \in 1..Len(shapes) : shapes[j].name = shape_name}
    IN IF shape_id # 0
       THEN IF by_id = {} THEN 0 ELSE CHOOSE j \in by_id : TRUE
       ELSE IF shape_name # "" /\ by_name # {}
       THEN CHOOSE j \in by_name : \A k \in by_name : j <= k
       ELSE 0

\* C4: the instructions of a batch are applied phase by phase in the order
\* add_shapes, update_shapes, delete_shapes, add_connections, whatever the
\* order of the keys: nothing of a later phase is applied before something
\* of an earlier one, and a request that succeeds has processed every
\* instruction of every list.
C4_PhasesInFixedOrder ==
    req.op = "modify" =>
        /\ \A i, j \in 1..Len(log) :
              i < j => PhaseRank(log[i].phase) <= PhaseRank(log[j].phase)
        /\ res.status = "success" =>
              /\ Len(log) = InstructionCount(req.batch)
              /\ \A k \in 1..Len(req.batch.lists) :
                    \A n \in 1..Len(req.batch.lists[k].list) :
                       \E i \in 1..Len(log) :
                          /\ log[i].phase = req.batch.lists[k].key
                          /\ log[i].ins = req.batch.lists[k].list[n]

\* a batch whose keys come in the order connect, delete, update, add: the
\* shape is added, updated and deleted, and the connection, applied last,
\* no longer finds it
C4_Witness ==
    /\ req.op = "modify"
    /\ res.status = "success"
    /\ BatchKeys(req.batch)
          = <<"add_connections", "delete_shapes", "update_shapes", "add_shapes">>
    /\ Len(log) = 4
    /\ log[1].phase = "add_shapes" /\ log[1].outcome = "applied"
    /\ log[2].phase = "update_shapes" /\ log[2].outcome = "applied"
    /\ log[3].phase = "delete_shapes" /\ log[3].outcome = "applied"
    /\ log[4].phase = "add_connections" /\ log[4].outcome = "to_not_found"

\* C5: an instruction whose page cannot be resolved is skipped and changes
\* nothing; when nothing else fails the other instructions of the batch are
\* all processed and the request succeeds.
C5_UnresolvedPageIsSkipped ==
    (req.op = "modify" /\ req.fault = NoFault /\ b64decode(req.input).visio) =>
        /\ \A i \in 1..Len(log) :
              PageUnresolved(log[i].ins, log[i].before) =>
                 /\ log[i].outcome = "page_not_found"
                 /\ log[i].after = log[i].before
        /\ (\A i \in 1..Len(log) :
               log[i].outcome = "raised" => PageUnresolved(log[i].ins, log[i].before))
           => /\ res.status = "success"
              /\ Len(log) = InstructionCount(req.batch)

\* C6: an update or delete instruction on a resolved page acts on the shape
\* with the identifier when an identifier is given, otherwise on the first
\* shape with the name, and on no other shape; a connection is glued from
\* and to the shapes resolved in the same way; an instruction whose shape
\* is not resolved leaves the document as it was.
C6_ShapeResolution ==
    req.op = "modify" =>
        \A i \in 1..Len(log) :
            (~PageUnresolved(log[i].ins, log[i].before) /\ log[i].outcome # "raised") =>
                LET e == log[i]
                    p == PageOf(e.ins, e.before)
                    old == e.before[p].shapes
                    new == e.after[p].shapes
                    j == ShapeOf(old, e.ins.shape_id, e.ins.shape_name)
                    jf == ShapeOf(old, e.ins.from_shape_id, e.ins.from_shape_name)
                    jt == ShapeOf(old, e.ins.to_shape_id, e.ins.to_shape_name)
                IN CASE e.phase = "update_shapes" ->
                          IF j = 0
                          THEN e.outcome = "shape_not_found" /\ e.after = e.before
                          ELSE /\ e.outcome = "applied"
                               /\ Len(new) = Len(old)
                               /\ \A k \in 1..Len(old) : k # j => new[k] = old[k]
                               /\ e.ins.has_text => new[j].text = e.ins.text
                               /\ e.ins.position = "xy" =>
                                     new[j].pin = <<Q(e.ins.x), Q(e.ins.y)>>
                     [] e.phase = "delete_shapes" ->
                          IF j = 0
                          THEN e.outcome = "shape_not_found" /\ e.after = e.before
                          ELSE /\ e.outcome = "applied"
                               /\ Len(new) = Len(old) - 1
                               /\ \A k \in 1..Len(new) : new[k].id # old[j].id
                               /\ \A k \in 1..Len(old) :
                                     k # j => \E n \in 1..Len(new) : new[n].id = old[k].id
                     [] e.phase = "add_connections" ->
                          IF jf = 0 \/ jt = 0
                          THEN /\ e.outcome \in {"from_not_found", "to_not_found"}
                               /\ e.after = e.before
                          ELSE /\ e.outcome = "applied"
                               /\ Len(new) = Len(old) + 1
                               /\ new[Len(new)].connects
                                     = << [from |-> new[Len(new)].id, to |-> old[jf].id],
                                          [from |-> new[Len(new)].id, to |-> old[jt].id] >>
                     [] OTHER -> TRUE

\* an update that gives identifier 3 (the shape "Note") and the name "Box"
\* (two other shapes) has set the text of shape 3 and of no other shape
C6_Witness ==
    /\ req.op = "modify"
    /\ req.input = BlobInput("flow")
    /\ Len(log) = 1
    /\ log[1].phase = "update_shapes"
    /\ log[1].ins.shape_id = 3 /\ log[1].ins.shape_name = "Box"
    /\ log[1].ins.has_text
    /\ log[1].outcome = "applied"
    /\ log[1].after[1].shapes[3].text = "New"
    /\ log[1].after[1].shapes[1].text = "Start"

\* C7: an add_shapes instruction on a resolved page creates exactly one
\* shape: an instance of the named master pinned at (x, y) when the
\* document has that master, otherwise a rectangle from (x, y) to
\* (x + 2, y + 1); the text of the instruction is the text of the new shape.
C7_OneShapePerAdd ==
    req.op = "modify" =>
        \A i \in 1..Len(log) :
            (log[i].phase = "add_shapes" /\ ~PageUnresolved(log[i].ins, log[i].before)) =>
                LET e == log[i]
                    p == PageOf(e.ins, e.before)
                    old == e.before[p].shapes
                    new == e.after[p].shapes
                    masters == b64decode(req.input).content.masters
                    found == \E m \in 1..Len(masters) : masters[m] = e.ins.master
                IN /\ Len(new) = Len(old) + 1
                   /\ \A k \in 1..Len(old) : new[k] = old[k]
                   /\ new[Len(new)].text = e.ins.text
                   /\ IF found
                      THEN /\ new[Len(new)].master = e.ins.master
                           /\ new[Len(new)].pin = <<Q(e.ins.x), Q(e.ins.y)>>
                      ELSE /\ new[Len(new)].master = ""
                           /\ new[Len(new)].size = <<Q(2), Q(1)>>
                           /\ new[Len(new)].pin = <<Q(e.ins.x) + Q(2) \div 2,
                                                    Q(e.ins.y) + Q(1) \div 2>>

----------------------------------------------------------------------------
(* Properties of the verifier (SpecVerify) *)

\* the pages of the document a verify request has looked at
VerifiedPages ==
    IF req.input.kind = "path"
    THEN documents[CHOOSE k \in 1..Len(documents) :
                      documents[k].name = basename(req.input.path)].pages
    ELSE b64decode(req.input).content.pages

\* a connector of the page named page_name is glued from the shape with
\* identifier from to the shape with identifier to
Linked(pages, from, to, page_name) ==
    \E p \in 1..Len(pages) :
        /\ pages[p].name = page_name
        /\ \E j \in 1..Len(pages[p].shapes) :
              LET rows == pages[p].shapes[j].connects IN
              /\ Len(rows) = 2
              /\ rows[1].to = from
              /\ rows[2].to = to

\* the page named page_name exists and has a shape with each identifier
BothOnPage(pages, from, to, page_name) ==
    \E p \in 1..Len(pages) :
        /\ pages[p].name = page_name
        /\ \E j \in 1..Len(pages[p].shapes) : pages[p].shapes[j].id = from
        /\ \E j \in 1..Len(pages[p].shapes) : pages[p].shapes[j].id = to

\* C8: the record of a triple (A, B, page) has connection_exists = true
\* when a connector that a modify request added links A to B on that page
\* of the document, and false when no connector links them.
C8_ConnectionExistsAgrees ==
    (req.op = "verify" /\ res.status = "success") =>
        \A k \in 1..Len(res.verification_results) :
            LET rec == res.verification_results[k] IN
            rec.connection_exists
                = Linked(VerifiedPages, rec.from_shape_id.v, rec.to_shape_id.v,
                         rec.page_name)

\* C9: the record of a triple has shapes_valid = true exactly when the
\* named page exists and both identifiers are shapes of that page; when the
\* page does not exist the record says so.
C9_ShapesValidAgrees ==
    (req.op = "verify" /\ res.status = "success" /\ req.fault = NoFault) =>
        \A k \in 1..Len(res.verification_results) :
            LET rec == res.verification_results[k] IN
            /\ rec.shapes_valid
                  = BothOnPage(VerifiedPages, rec.from_shape_id.v, rec.to_shape_id.v,
                               rec.page_name)
            /\ (\A p \in 1..Len(VerifiedPages) : VerifiedPages[p].name # rec.page_name)
                  => rec.validation_message = "page_not_found"

\* the fields of a verification record
RecordFields ==
    {"from_shape_id", "to_shape_id", "page_name", "connection_exists",
     "shapes_valid", "validation_message"}

\* C10: verify_connections never lets an exception through and always
\* returns a dict with a status.  With status "success" it returns one
\* record for each triple, in the order of the triples, each with the
\* triple, the two booleans and the message; with status "error" (the
\* backend could not be reached, the document not opened or not analysed)
\* it returns a message and no record.
C10_StructuredResult ==
    req.op = "verify" =>
        /\ ~res.propagated
        /\ res.status \in {"success", "error"}
        /\ res.status = "error" =>
              res.verification_results = <<>> /\ res.message = "exception"
        /\ res.status = "success" =>
              /\ Len(res.verification_results) = Len(req.connection_attempts)
              /\ \A k \in 1..Len(req.connection_attempts) :
                    LET rec == res.verification_results[k]
                        attempt == req.connection_attempts[k]
                    IN /\ DOMAIN rec = RecordFields
                       /\ rec.from_shape_id = attempt.from_shape_id
                       /\ rec.to_shape_id = attempt.to_shape_id
                       /\ rec.page_name = attempt.page_name
                       /\ rec.connection_exists \in BOOLEAN
                       /\ rec.shapes_valid \in BOOLEAN
                       /\ rec.validation_message
                             \in {"shapes_valid", "page_not_found", "source_not_found",
                                  "target_not_found", "error_validating"}

\* two different triples verified on the open document, the second of them
\* valid: two records in the order of the triples
C10_Witness ==
    /\ req.op = "verify"
    /\ req.input = PathInput(PathFlowA)
    /\ res.status = "success"
    /\ Len(req.connection_attempts) = 2
    /\ req.connection_attempts[1] = Attempt(StrId(1), StrId(2), "Nope")
    /\ req.connection_attempts[2] = Attempt(StrId(2), StrId(1), "Page-1")
    /\ Len(res.verification_results) = 2
    /\ res.verification_results[1].validation_message = "page_not_found"
    /\ res.verification_results[2].shapes_valid

\* the sentence as the specification has it: one record for each triple,
\* whatever the outcome of the request
C10_OneRecordPerTriple ==
    req.op = "verify" =>
        Len(res.verification_results) = Len(req.connection_attempts)

----------------------------------------------------------------------------
(* Properties of the dispatcher and its transports (SpecDispatch) *)

\* a message is in hand that decoded to an object
InHand == req # IdleReq /\ IsDict(req.text)

\* the message in hand names mcp_method
Names(mcp_method) == InHand /\ MethodOf(req.text) = mcp_method

Streaming == Names(StreamingMethod)

ErrorCodes == {MethodNotFound, InternalError, ParseError}

\* e is a well-formed response envelope: a result, or an error with one of
\* the error codes
WellFormed(e) ==
    \/ e.key = "result" /\ e.code = 0
    \/ e.key = "error" /\ e.code \in ErrorCodes

\* C11: a request whose method is not the streaming method, read from stdin
\* or posted to /sse, is answered by exactly one envelope, a result or an
\* error, written in the step that takes the request; nothing more is
\* written for it afterwards.
C11_ExactlyOneEnvelope ==
    [][ /\ (InHand' /\ ~Streaming') =>
            (Len(wire') = 1 /\ WellFormed(wire'[1]))
        /\ req # IdleReq => (req' = IdleReq /\ wire' = <<>>) ]_vars

\* C11 witness: a generate request posted to /sse whose handler raised has
\* been answered by one error envelope
C11_Witness ==
    /\ Names("generate_visio_diagram")
    /\ req.op = "sse"
    /\ res.propagated
    /\ Len(wire) = 1
    /\ wire[1].key = "error"

\* a failure happened while the message in hand was handled: it did not
\* decode to an object, mcp_params is no dict where it is read, the
\* component raised, or the collaborator's stream raised
Failed ==
    /\ req # IdleReq
    /\ \/ ~IsDict(req.text)
       \/ /\ MethodOf(req.text) \in ReadsParams
          /\ ~IsDict(DictGet(req.text, "params", [json |-> "object"]))
       \/ res.propagated
       \/ Streaming /\ chat_stream(req.env.chunks).raised

\* C12: no failure escapes the dispatcher, on stdin or on /sse: every
\* message is answered by at least one envelope, and when the component,
\* the collaborator or the decoding of the message failed, the last
\* envelope written is an {error} envelope.
C12_NoFailureEscapes ==
    req # IdleReq =>
        /\ wire # <<>>
        /\ Failed => wire[Len(wire)].key = "error"

\* the methods whose handlers drive the automation backend
BackendMethods ==
    {"analyze_visio_diagram", "modify_visio_diagram", "verify_connections",
     "generate_visio_diagram", "get_active_document"}

\* the backend failed while the message in hand was handled: it could not
\* be started, or an Open, Save or SaveAs call raised
BackendFailed ==
    /\ InHand
    /\ MethodOf(req.text) \in BackendMethods
    /\ \/ req.env.fault.at = "init" /\ visio_app = "None"
       \/ \E i \in 1..Len(calls) :
             calls[i].raised /\ calls[i].call \in {"Open", "Save", "SaveAs"}

\* C13: when the backend fails to start or to respond during analyze,
\* modify, verify, generate or get_active_document, the caller gets one
\* {error} envelope with code -32603 and no {result} envelope, and the
\* failed call is not made a second time.
C13_BackendFailureIsErrorEnvelope ==
    BackendFailed =>
        /\ \A i \in 1..Len(wire) :
              wire[i].key = "error" /\ wire[i].code = InternalError
        /\ Cardinality({i \in 1..Len(calls) : calls[i].raised}) <= 1

\* the message in hand is a request for the streaming method whose params
\* are a dict
StreamRequested ==
    Streaming /\ IsDict(DictGet(req.text, "params", [json |-> "object"]))

\* C14: for a request of the streaming method the last envelope written
\* carries a chunk with done = true, also when the collaborator's stream
\* ends without a terminal chunk or raises part-way.
C14_LastEnvelopeIsDone ==
    StreamRequested =>
        /\ wire # <<>>
        /\ wire[Len(wire)].chunk # <<>>
        /\ wire[Len(wire)].chunk[1].done

\* C15: for a request of the streaming method every chunk of the
\* collaborator's stream is passed on in its own envelope, in the order of
\* the stream: the i-th envelope written carries the i-th chunk, with its
\* fragment and its done flag.
C15_OneEnvelopePerChunk ==
    StreamRequested =>
        \A i \in 1..Len(req.env.chunks) :
            /\ i <= Len(wire)
            /\ wire[i].key = "result"
            /\ wire[i].chunk = << req.env.chunks[i] >>

\* a line read from stdin is in hand
OnStdio == req # IdleReq /\ req.op = "stdio"

\* the state of the Visio service and of the file system
service == <<visio_app, documents, files, tempFiles>>

\* C16: a line on stdin that is no JSON is answered by exactly one line,
\* the error envelope with code -32700, and leaves the service as it was;
\* the transport then takes the next line, and a line that is JSON is
\* answered after it as usual: by one envelope that is no parse error (a
\* ping by "pong").
C16_ParseErrorThenOn ==
    [][ /\ (OnStdio' /\ json_loads(req'.text).raised) =>
            /\ wire' = << ErrorEnvelope(ParseError, <<"Parse error">>) >>
            /\ service' = service
        /\ (OnStdio /\ json_loads(req.text).raised) =>
            /\ req' = IdleReq
            /\ prev' = [n |-> 1, code |-> ParseError]
        /\ (prev.code = ParseError /\ OnStdio' /\ ~json_loads(req'.text).raised) =>
            /\ Len(wire') = 1
            /\ WellFormed(wire'[1])
            /\ wire'[1].code # ParseError
            /\ Names("ping")' => wire'[1].text = "pong" ]_vars

\* C16 witness: the line before was no JSON and got its -32700 line; the
\* line in hand, a ping, is answered by "pong"
C16_Witness ==
    /\ prev = [n |-> 1, code |-> ParseError]
    /\ OnStdio
    /\ Names("ping")
    /\ wire = << [Envelope("result", 0, <<>>) EXCEPT !.text = "pong"] >>

\* the message in hand names a method that is not in the method set (or no
\* method at all)
UnknownMethod == InHand /\ MethodOf(req.text) \notin MethodSet

\* C17: a request whose method is not in the method set is answered, on
\* stdin and on /sse alike, by the one envelope {error: {code: -32601,
\* message: "Method '<method>' not found"}}; no call is made on the backend,
\* the file system or the collaborator and the service stays as it was.
C17_UnknownMethod ==
    [][ UnknownMethod' =>
          /\ wire' = << ErrorEnvelope(MethodNotFound,
                                      <<"Method not found", MethodOf(req'.text)>>) >>
          /\ calls' = <<>>
          /\ service' = service ]_vars

\* C17 witness: "frobnicate" posted to /sse has got its -32601 envelope
C17_Witness ==
    /\ Names("frobnicate")
    /\ req.op = "sse"
    /\ Len(wire) = 1
    /\ wire[1].code = MethodNotFound
    /\ visio_app = "App"

\* the payload of an envelope: its result or its error, without the id
Payload(e) ==
    [key |-> e.key, code |-> e.code, message |-> e.message, text |-> e.text,
     result |-> e.result, chunk |-> e.chunk]

Payloads(envelopes) == [i \in 1..Len(envelopes) |-> Payload(envelopes[i])]

\* what the other transport writes for the same message, taken in the same
\* state of the service with the same behaviour of the environment
OtherTransport(transport, text, env) ==
    IF transport = "stdio"
    THEN sse_endpoint(visio_app, documents, files, tempFiles, text, env).envelopes
    ELSE run_stdio_transport(visio_app, documents, files, tempFiles, text,
                             env).envelopes

\* C18: for a request that names a method of the method set, taken in any
\* state of the service, the result or error payloads written by the
\* transport that carried it are those the other transport writes for the
\* same request in that state.
C18_SamePayloadOnBothTransports ==
    [][ (InHand' /\ MethodOf(req'.text) \in MethodSet) =>
          Payloads(wire') =
              Payloads(OtherTransport(req'.op, req'.text, req'.env)) ]_vars

\* C18 witness: a request of the streaming method, which the two
\* transports hand to different functions, has been answered on /sse
C18_Witness ==
    /\ StreamRequested
    /\ req.op = "sse"
    /\ Len(wire) = 1
    /\ documents # <<>>

----------------------------------------------------------------------------
(* Properties of modify_visio_diagram over a session (Spec) *)

\* the open document a path-based request worked on: the one
\* _get_or_open_document gave it, which stays open after the request
WorkedOn == documents[get_document_by_name(documents, req.input.path)]

\* C19: a modify_visio_diagram request that raises nothing has saved the
\* document in place and returns status success with a message; the result
\* carries file_content exactly when the input was content or
\* return_content was asked for; for a path it carries that path as
\* file_path, the file at that path is the document as modified, and the
\* file_content returned is that updated content.
C19_SavedInPlaceAndReturned ==
    (req # IdleReq /\ req.op = "modify" /\ res.status = "success") =>
        /\ res.message # ""
        /\ \E i \in CallsOf("Save") : ~calls[i].raised
        /\ res.has_file_content =
              (~exists(files, req.input) \/ req.batch.return_content)
        /\ exists(files, req.input) =>
              /\ res.file_path = req.input.path
              /\ files[req.input.path] = ContentOf(WorkedOn)
              /\ res.has_file_content => res.file_content = ContentOf(WorkedOn)

----------------------------------------------------------------------------
(* Properties of the deletion sessions (SpecDelete) *)

\* the drawing the next request on a/flow.vsdx works on: the document that
\* is open under its name, or the file when none is
Drawing ==
    IF get_document_by_name(documents, PathFlowA) # 0
    THEN ContentOf(documents[get_document_by_name(documents, PathFlowA)])
    ELSE files[PathFlowA]

\* The identifiers below nextId are those the backend has handed out, and
\* a/flow.vsdx starts with every one of them on a page: an identifier that
\* is on no page of d belongs to a shape an earlier batch deleted.
Deleted(d) ==
    { x \in 1..(d.nextId - 1) :
        \A p \in 1..Len(d.pages) :
            \A j \in 1..Len(d.pages[p].shapes) : d.pages[p].shapes[j].id # x }

\* the instruction of the log entry e gives x as a shape_id
RefersTo(e, x) ==
    CASE e.phase \in {"update_shapes", "delete_shapes"} -> e.ins.shape_id = x
      [] e.phase = "add_connections" ->
            e.ins.from_shape_id = x \/ e.ins.to_shape_id = x
      [] OTHER -> FALSE

NotFound == {"shape_not_found", "from_not_found", "to_not_found"}

\* C20: once a batch has deleted the shape with identifier x, an instruction
\* of a later batch that gives x as a shape_id never acts on a shape and
\* leaves the document as it was; when its page resolves, it is skipped
\* because the shape is not found.
C20_DeletedIdIsNotFound ==
    [][\A x \in Deleted(Drawing) :
          \A k \in 1..Len(log') :
              RefersTo(log'[k], x) =>
                 /\ log'[k].outcome # "applied"
                 /\ log'[k].after = log'[k].before
                 /\ ~PageUnresolved(log'[k].ins, log'[k].before) =>
                       log'[k].outcome \in NotFound]_vars

\* shape 1 was deleted by an earlier batch; this batch gives identifier 1
\* with the name "Box", which shape 2 still carries, and the update is
\* skipped: shape 2 keeps its text
C20_Witness ==
    /\ req # IdleReq /\ req.op = "modify"
    /\ Len(log) >= 1
    /\ log[1].phase = "update_shapes"
    /\ log[1].ins.shape_id = 1 /\ log[1].ins.shape_name = "Box"
    /\ log[1].outcome = "shape_not_found"
    /\ Len(log[1].before[1].shapes) >= 1
    /\ log[1].before[1].shapes[1].id = 2
    /\ log[1].before[1].shapes[1].name = "Box"
    /\ log[1].after[1].shapes[1].text = "End"

----------------------------------------------------------------------------
(* Properties of a client's session (SpecScenario) *)

\* the open document of a/plan.vsdx
Plan == documents[get_document_by_name(documents, PathPlan)]

\* the request in hand was sent after the batch before_last and then the
\* batch last had both been answered with success, on the drawing as it
\* was at the start
AfterBatches(before_last, last) ==
    /\ req # IdleReq
    /\ Len(trail) = 2
    /\ trail[1].req.op = "modify" /\ trail[1].req.batch = before_last
    /\ trail[1].status = "success"
    /\ trail[2].req.op = "modify" /\ trail[2].req.batch = last
    /\ trail[2].status = "success"

\* C21: on a drawing with a page Page-1, after a batch that adds two shapes
\* with the texts Start and End and a batch that connects from_shape_name
\* Start to to_shape_name End with the text flow, the connections report
\* has exactly one record; its text is flow and its two ends are the two
\* new shapes.
C21_EndToEndScenario ==
    (AfterBatches(StartEnd, Flow("Start", "End"))
       /\ req.op = "analyze" /\ req.analysis_type = "connections") =>
        /\ res.status = "success"
        /\ res.results.total_connections = 1
        /\ Len(res.results.pages[1].connections) = 1
        /\ res.results.pages[1].connections[1].text = "flow"
        /\ \E a, b \in 1..Len(Plan.pages[1].shapes) :
              /\ Plan.pages[1].shapes[a].text = "Start"
              /\ Plan.pages[1].shapes[b].text = "End"
              /\ res.results.pages[1].connections[1].connects_from.id
                    = Plan.pages[1].shapes[a].id
              /\ res.results.pages[1].connections[1].connects_to.id
                    = Plan.pages[1].shapes[b].id

\* the request in hand was sent right after batch had been answered with
\* success
AfterBatch(batch) ==
    /\ req # IdleReq
    /\ Len(trail) >= 1
    /\ trail[Len(trail)].req.op = "modify"
    /\ trail[Len(trail)].req.batch = batch
    /\ trail[Len(trail)].status = "success"

\* C22: after a batch that adds one shape with the text T on an existing
\* page (as an instance of a master of the document, or as a rectangle
\* when no master is named or the named master is not found), the structure
\* report of the same document has a shape whose name or text is T.
C22_AddThenAnalyze ==
    \A master \in {"", "Process", "Decision"} :
        (AfterBatch(AddOne(master))
           /\ req.op = "analyze" /\ req.analysis_type = "structure") =>
            /\ res.status = "success"
            /\ \E p \in 1..Len(res.results.pages) :
                  \E j \in 1..Len(res.results.pages[p].shapes) :
                      \/ res.results.pages[p].shapes[j].text = "T"
                      \/ res.results.pages[p].shapes[j].name = "T"

----------------------------------------------------------------------------
(* Properties of update_shapes (SpecEngine) *)

\* C23: an update_shapes instruction that is applied changes, of the whole
\* document, only the shape it resolved, and of that shape only the text,
\* when the instruction has a text, and the position, when it has both
\* coordinates of a position; an instruction that is not applied changes
\* nothing.
C23_UpdateChangesOnlyItsFields ==
    (req # IdleReq /\ req.op = "modify") =>
        \A i \in 1..Len(log) :
            log[i].phase = "update_shapes" =>
                IF log[i].outcome # "applied" THEN log[i].after = log[i].before
                ELSE LET e == log[i]
                         old == e.before[e.page].shapes
                         new == e.after[e.page].shapes
                     IN /\ Len(e.after) = Len(e.before)
                        /\ \A q \in 1..Len(e.before) :
                              q # e.page => e.after[q] = e.before[q]
                        /\ e.after[e.page].name = e.before[e.page].name
                        /\ Len(new) = Len(old)
                        /\ \A k \in 1..Len(old) :
                              IF old[k].id # e.target THEN new[k] = old[k]
                              ELSE new[k] =
                                     [old[k] EXCEPT
                                        !.text = IF e.ins.has_text THEN e.ins.text
                                                 ELSE @,
                                        !.pin = IF e.ins.position = "xy"
                                                THEN <<Q(e.ins.x), Q(e.ins.y)>>
                                                ELSE @]

\* an update of shape 3 that carries a text and no position has set the
\* text and left the shape where it was
C23_Witness ==
    /\ req # IdleReq /\ req.op = "modify"
    /\ req.input = BlobInput("flow")
    /\ Len(log) = 1
    /\ log[1].phase = "update_shapes" /\ log[1].outcome = "applied"
    /\ log[1].ins.has_text /\ log[1].ins.position = "absent"
    /\ log[1].target = 3
    /\ log[1].before[1].shapes[3].text = ""
    /\ log[1].after[1].shapes[3].text = "New"
    /\ log[1].after[1].shapes[3].pin = <<20, 34>>

----------------------------------------------------------------------------
(* Properties of the analysis reports (Spec) *)

\* the drawing a successful request of the three handlers worked on: the
\* open document with the base name of the path, or the decoded content
Analysed ==
    IF exists(files, req.input)
    THEN ContentOf(documents[get_document_by_name(documents, req.input.path)])
    ELSE b64decode(req.input).content

\* C24: in a structure report total_shapes is the sum of the shapes_count
\* of the pages; the report has the pages of the document in order, and
\* for each page as many shape entries as its shapes_count, which are the
\* shapes of the page in document order.
C24_StructureTotals ==
    (req # IdleReq /\ req.op = "analyze" /\ req.analysis_type = "structure"
       /\ res.status = "success") =>
        LET report == res.results IN
        /\ report.total_shapes =
              Sum([p \in 1..Len(report.pages) |-> report.pages[p].shapes_count],
                  Len(report.pages))
        /\ Len(report.pages) = Len(Analysed.pages)
        /\ \A p \in 1..Len(report.pages) :
              /\ report.pages[p].name = Analysed.pages[p].name
              /\ report.pages[p].shapes_count = Len(Analysed.pages[p].shapes)
              /\ Len(report.pages[p].shapes) = report.pages[p].shapes_count
              /\ \A j \in 1..Len(report.pages[p].shapes) :
                    /\ report.pages[p].shapes[j].id = Analysed.pages[p].shapes[j].id
                    /\ report.pages[p].shapes[j].name
                          = Analysed.pages[p].shapes[j].name
                    /\ report.pages[p].shapes[j].text
                          = Analysed.pages[p].shapes[j].text

\* the structure report of a/flow.vsdx: three shapes on the first page, one
\* on the second, four in all
C24_Witness ==
    /\ req # IdleReq /\ req.op = "analyze" /\ req.analysis_type = "structure"
    /\ req.input = PathInput(PathFlowA)
    /\ res.status = "success"
    /\ Len(documents) = 1 /\ documents[1].path = PathFlowA
    /\ Len(res.results.pages) = 2
    /\ res.results.pages[1].shapes_count = 3
    /\ res.results.pages[2].shapes_count = 1
    /\ res.results.total_shapes = 4

----------------------------------------------------------------------------
(* Properties of the connections report (SpecScenario) *)

\* the shape has a connect point, and a sheet of one of its Connect rows is
\* not the shape itself
HasResolvedEnd(sh) ==
    \E k \in 1..Len(sh.connects) :
        sh.connects[k].from # sh.id \/ sh.connects[k].to # sh.id

\* C25: the connections report has, for each page, one record for each
\* shape of the page that has a connect point and a resolved endpoint, in
\* document order, and for no other shape; total_connections is the number
\* of records of all pages.
C25_ConnectionRecords ==
    (req # IdleReq /\ req.op = "analyze" /\ req.analysis_type = "connections"
       /\ res.status = "success") =>
        LET report == res.results IN
        /\ Len(report.pages) = Len(Plan.pages)
        /\ \A p \in 1..Len(report.pages) :
              LET emitting == SelectSeq(Plan.pages[p].shapes, HasResolvedEnd) IN
              /\ Len(report.pages[p].connections) = Len(emitting)
              /\ \A k \in 1..Len(emitting) :
                    /\ report.pages[p].connections[k].connector_id = emitting[k].id
                    /\ report.pages[p].connections[k].text = emitting[k].text
        /\ report.total_connections =
              Sum([p \in 1..Len(report.pages) |-> Len(report.pages[p].connections)],
                  Len(report.pages))

\* two rectangles and a connector glued to both: the report has one record,
\* for the connector, and none for the rectangles
C25_Witness ==
    /\ AfterBatches(StartEnd, Flow("Sheet.1", "Sheet.2"))
    /\ req.op = "analyze" /\ req.analysis_type = "connections"
    /\ res.status = "success"
    /\ Len(Plan.pages[1].shapes) = 3
    /\ res.results.total_connections = 1
    /\ res.results.pages[1].connections[1].connector_id = 3
    /\ res.results.pages[1].connections[1].connects_to.id = 2

----------------------------------------------------------------------------
(* Properties of analyze_visio_diagram and verify_connections (Spec) *)

\* what the request of the step would have left with the analysis type
\* "structure", everything else being the same
AsStructure ==
    AnalyzeHandler(visio_app, documents, files, tempFiles, req'.input, "structure",
                   req'.fault)

\* C26: an analyze request with an unknown analysis type returns an error,
\* the unknown-analysis-type error whenever the document could be obtained,
\* and leaves the open documents, the files and the temporary files as the
\* same request with a valid type would: it makes the same open, unlink and
\* close calls; a document opened from a temporary file is closed and its
\* file unlinked, every other document stays open.
C26_UnknownAnalysisType ==
    [][(req = IdleReq /\ req'.op = "analyze"
          /\ req'.analysis_type \notin AnalysisTypes) =>
          /\ res'.status = "error"
          /\ ~Acquire(visio_app, documents, files, tempFiles, req'.input,
                      req'.fault).raised
                => res'.message = "unknown_analysis_type"
          /\ visio_app' = AsStructure.app
          /\ documents' = AsStructure.docs
          /\ tempFiles' = AsStructure.temps
          /\ files' = files
          /\ calls' = AsStructure.calls
          /\ \A i \in 1..Len(calls') :
                (calls'[i].call = "Open" /\ ~calls'[i].raised) =>
                   IF calls'[i].target \in TempNames
                   THEN /\ \E j \in (i + 1)..Len(calls') :
                             calls'[j] = Call("unlink", calls'[i].target, FALSE)
                        /\ \E j \in (i + 1)..Len(calls') :
                             /\ calls'[j].call = "Close"
                             /\ calls'[j].target = calls'[i].target
                             /\ ~calls'[j].raised =>
                                   \A k \in 1..Len(documents') :
                                       documents'[k].path # calls'[i].target
                        /\ calls'[i].target \notin tempFiles'
                   ELSE \E k \in 1..Len(documents') :
                           documents'[k].path = calls'[i].target
          /\ \A k \in 1..Len(documents) :
                \E j \in 1..Len(documents') : documents'[j] = documents[k]]_vars

\* an unknown analysis type on the content of a drawing: the error is
\* returned after the temporary document was opened, and the document is
\* closed and its file unlinked
C26_Witness ==
    /\ req # IdleReq /\ req.op = "analyze"
    /\ req.analysis_type = "bogus"
    /\ req.input = BlobInput("flow")
    /\ res.status = "error" /\ res.message = "unknown_analysis_type"
    /\ Len(calls) = 3
    /\ calls[1].call = "Open" /\ ~calls[1].raised
    /\ calls[2].call = "unlink"
    /\ calls[3].call = "Close" /\ ~calls[3].raised
    /\ documents = <<>>
    /\ tempFiles = {}

\* the drawing a request's input names: the file at the path, or the
\* decoded content
Named(input) ==
    IF exists(files, input) THEN files[input.path] ELSE b64decode(input).content

\* C27: an analyze request (structure, connections or text) or a verify
\* request changes no drawing: the files are what they were, every
\* document that was open is still open with the same pages, shapes and
\* shape attributes, and a document the request leaves open holds exactly
\* the drawing it was opened from.
C27_ReadOnlyRequests ==
    [][(req = IdleReq /\ req'.op \in {"analyze", "verify"}) =>
          /\ files' = files
          /\ Len(documents') >= Len(documents)
          /\ \A k \in 1..Len(documents) : documents'[k] = documents[k]
          /\ \A k \in (Len(documents) + 1)..Len(documents') :
                ContentOf(documents'[k]) = Named(req'.input)]_vars

\* a verification that succeeded on a document that was already open and
\* holds shapes
C27_Witness ==
    /\ req # IdleReq /\ req.op = "verify"
    /\ req.input = PathInput(PathFlowA)
    /\ req.connection_attempts # <<>>
    /\ res.status = "success"
    /\ Len(res.verification_results) = 1
    /\ calls = <<>>
    /\ Len(documents) = 1
    /\ Len(documents[1].pages[1].shapes) > 0

----------------------------------------------------------------------------
(* Properties of get_active_document (SpecDispatch) *)

\* a get_active_document message is taken from a transport in this step
ActiveAsked ==
    /\ req = IdleReq /\ req' # IdleReq
    /\ MethodOf(req'.text) = "get_active_document"

\* the application is running or can be started by the request of the step
CanStart == visio_app # "None" \/ req'.env.fault.at # "init"

\* C28: get_active_document answers with the document the backend holds
\* active (its path, name and pages) when the backend has one, and with the
\* no-active-document error when no document is open or the backend gives
\* none; whatever the answer, the open documents, the files and the
\* temporary files are the same after the call as before, and no document
\* is opened or closed.
C28_ActiveDocument ==
    [][ActiveAsked =>
          /\ documents' = documents
          /\ files' = files
          /\ tempFiles' = tempFiles
          /\ calls' = <<>>
          /\ (CanStart /\ req'.env.fault.at # "active" /\ Len(documents) > 0) =>
                /\ res'.status = "success"
                /\ res'.file_path = documents[req'.env.active].path
                /\ res'.results = doc_info(documents[req'.env.active])
          /\ (CanStart /\ (Len(documents) = 0 \/ req'.env.fault.at = "active")) =>
                /\ res'.status = "error"
                /\ res'.message = "no_active_document"
          /\ ~CanStart => res'.status = "error"]_vars

\* the second of two open documents is the active one and is reported
C28_Witness ==
    /\ req # IdleReq /\ req.op \in {"stdio", "sse"}
    /\ MethodOf(req.text) = "get_active_document"
    /\ Len(documents) = 2
    /\ req.env.active = 2
    /\ res.status = "success"
    /\ res.file_path = documents[2].path

----------------------------------------------------------------------------
(* The start of the application: requests of one process, with the calls   *)
(* of _ensure_visio_app that may raise                                     *)

StartFaults == Faults({"init", "attach", "visible"})

AnalyzeStarting ==
    \E input \in Arriving(FileInputs), fault \in StartFaults :
        Analyze(input, "structure", fault)

NextStart ==
    \/ AnalyzeStarting
    \/ Return

SpecStart == Init /\ [][NextStart]_vars

----------------------------------------------------------------------------
(* Properties of _ensure_visio_app (SpecStart) *)

\* GetObject finds a running application in the request of the step
Discoverable == req'.fault.at \notin {"init", "attach"}

\* C29: over the requests of one process the application is initialized
\* once: a handle that is set is never changed by a later request; the
\* first request that can start the application sets the handle, to the
\* running application when GetObject finds one and to a new application
\* otherwise.
C29_InitializedOnce ==
    [][(req = IdleReq /\ req' # IdleReq) =>
          /\ visio_app # "None" => visio_app' = visio_app
          /\ (visio_app = "None" /\ req'.fault.at # "init") =>
                visio_app' = IF Discoverable THEN "App" ELSE "Started"
          /\ (visio_app = "None" /\ req'.fault.at = "init") =>
                visio_app' = "None"]_vars

----------------------------------------------------------------------------
(* Concurrent POSTs to /sse.  sse_endpoint is a coroutine of one event     *)
(* loop: it is suspended at "await request.json()", and from there to its  *)
(* return nothing awaits on the branch of a Visio method, so the handler   *)
(* runs as one step of the loop while the other POSTs wait.                *)

ConcurrentInputs == { PathInput(PathFlowA), PathInput(PathPlan) }

\* a POST arrives; the coroutine waits for its body
Post(c) ==
    \E input \in ConcurrentInputs :
        /\ flights[c] = NoFlight
        /\ flights' = [flights EXCEPT ![c] = Flight("reading", input, 0, FALSE)]
        /\ UNCHANGED <<visio_app, documents, files, tempFiles, req, res, calls, log,
                       wire, prev, trail>>

\* the POSTs other than c whose bodies are being read
Reading(c) == { o \in Clients \ {c} : flights[o].stage = "reading" }

\* the loop resumes the coroutine of c: process_message runs the analysis
\* to its return; req, res and calls are those of the handler run last
Resume(c) ==
    \E fault \in { NoFault, Fault("open", FALSE) } :
        LET input == flights[c].input
            h == AnalyzeHandler(visio_app, documents, files, tempFiles, input,
                                "structure", fault)
        IN /\ flights[c].stage = "reading"
           /\ Len(h.docs) <= MaxDocs
           /\ visio_app' = h.app
           /\ documents' = h.docs
           /\ files' = h.fs
           /\ tempFiles' = h.temps
           /\ req' = [op |-> "analyze", input |-> input,
                      analysis_type |-> "structure", fault |-> fault]
           /\ res' = h.res
           /\ calls' = h.calls
           /\ log' = h.log
           /\ flights' = [flights EXCEPT
                             ![c] = Flight("processed", input,
                                           Cardinality(Reading(c)),
                                           \E i \in 1..Len(h.calls) :
                                              h.calls[i] =
                                                 Call("Open", input.path, FALSE))]
           /\ UNCHANGED <<wire, prev, trail>>

\* the event of the response is sent
Respond(c) ==
    /\ flights[c].stage = "processed"
    /\ flights' = [flights EXCEPT ![c] = NoFlight]
    /\ UNCHANGED <<visio_app, documents, files, tempFiles, req, res, calls, log,
                   wire, prev, trail>>

NextConcurrent ==
    \/ \E c \in Clients : Post(c)
    \/ \E c \in Clients : Resume(c)
    \/ \E c \in Clients : Respond(c)

SpecConcurrent == Init /\ [][NextConcurrent]_vars

----------------------------------------------------------------------------
(* Properties of concurrent requests (SpecConcurrent) *)

\* the open documents of the file at path
OpenOf(docs, path) == { k \in 1..Len(docs) : docs[k].path = path }

\* C30: requests in hand at the same time do not interleave on the
\* application handle and on the opening of a document: the handle and the
\* open documents change only in the step that runs one request's handler,
\* that step opens a document only if no document of that name was open
\* when the step began, and so no file is ever open twice, however many
\* requests for it are in hand.
C30_NoInterleavedOpen ==
    [][/\ \A k \in 1..Len(documents') :
             Cardinality(OpenOf(documents', documents'[k].path)) = 1
       /\ (\A c \in Clients : flights'[c].stage = flights[c].stage
                                 \/ flights'[c].stage # "processed") =>
             /\ visio_app' = visio_app
             /\ documents' = documents
       /\ \A c \in Clients :
             (flights[c].stage = "reading" /\ flights'[c].stage = "processed") =>
                /\ get_document_by_name(documents, flights[c].input.path) # 0 =>
                      /\ calls' = <<>>
                      /\ documents' = documents
                /\ get_document_by_name(documents, flights[c].input.path) = 0 =>
                      /\ Len(calls') = 1
                      /\ calls'[1].call = "Open"
                      /\ calls'[1].target = flights[c].input.path]_vars

\* two requests for the same file were in hand together: the handler of
\* the first ran while the body of the second was read and opened the file,
\* the handler of the second ran after it, made no call and found the one
\* document
C30_Witness ==
    \E c \in Clients, o \in Clients :
        /\ c # o
        /\ flights[o] = Flight("processed", PathInput(PathPlan), 1, TRUE)
        /\ flights[c] = Flight("processed", PathInput(PathPlan), 0, FALSE)
        /\ req.input = PathInput(PathPlan)
        /\ res.status = "success"
        /\ calls = <<>>
        /\ Cardinality(OpenOf(documents, PathPlan)) = 1

----------------------------------------------------------------------------
(* A stream on /sse with other POSTs beside it.  For ask_ai_about_visio     *)
(* sse_endpoint returns EventSourceResponse(event_generator()): the         *)
(* generator is resumed for one envelope at a time, and between two         *)
(* resumptions the loop runs the coroutines of the other POSTs.  req is the *)
(* stream in hand and wire the envelopes sent for it so far.                *)

StreamTexts ==
    { Identified(Object(StreamingMethod, Dict([model |-> "llama3"])), 7),
      Object(StreamingMethod, Dict([model |-> "llama3"])) }

BesideTexts ==
    { Object("ping", NoObject),
      [json |-> "object", method |-> "get_active_document"],
      Object("analyze_visio_diagram",
             Dict([file_path_or_content |-> PathInput(PathFlowA)])) }

\* a POST beside the stream: its body is being read, or it has been
\* processed and envelopes are the events of its response
Beside(stage, text, envelopes) ==
    [stage |-> stage, text |-> text, envelopes |-> envelopes]

\* the envelopes event_generator yields for the stream in hand
Yielded(text, env) ==
    sse_endpoint(visio_app, documents, files, tempFiles, text, env).envelopes

\* the POST of a streaming request: the generator runs to its first yield
\* (the endpoint always sends at least the envelope of the except clause)
StreamBegin ==
    \E text \in Arriving(StreamTexts), chunks \in ChunkStreams :
        /\ req' = Received("sse", text, Env(NoFault, TRUE, 1, chunks))
        /\ wire' = SubSeq(Yielded(text, Env(NoFault, TRUE, 1, chunks)), 1, 1)
        /\ UNCHANGED <<visio_app, documents, files, tempFiles, res, calls, log,
                       prev, trail, flights>>

\* the generator is resumed: it yields its next envelope, or it ends and
\* the response is complete
StreamResume ==
    /\ req # IdleReq
    /\ IF Len(wire) < Len(Yielded(req.text, req.env))
       THEN /\ wire' = Append(wire, Yielded(req.text, req.env)[Len(wire) + 1])
            /\ UNCHANGED <<req, prev>>
       ELSE /\ req' = IdleReq
            /\ wire' = <<>>
            /\ prev' = Answer(wire)
    /\ UNCHANGED <<visio_app, documents, files, tempFiles, res, calls, log, trail,
                   flights>>

\* another POST arrives; its coroutine waits for the body
BesidePost(c) ==
    \E text \in BesideTexts :
        /\ flights[c] = NoFlight
        /\ flights' = [flights EXCEPT ![c] = Beside("reading", text, <<>>)]
        /\ UNCHANGED <<visio_app, documents, files, tempFiles, req, res, calls, log,
                       wire, prev, trail>>

\* what the endpoint leaves for the POST of c
Landed(c, t) ==
    /\ Len(t.docs) <= MaxDocs
    /\ visio_app' = t.app
    /\ documents' = t.docs
    /\ files' = t.fs
    /\ tempFiles' = t.temps
    /\ flights' = [flights EXCEPT ![c] = Beside("processed", @.text, t.envelopes)]

\* the loop resumes the coroutine of c: process_message runs to its return
BesideResume(c) ==
    /\ flights[c].stage = "reading"
    /\ Landed(c, sse_endpoint(visio_app, documents, files, tempFiles,
                              flights[c].text, Env(NoFault, TRUE, 1, <<>>)))
    /\ UNCHANGED <<req, res, calls, log, wire, prev, trail>>

\* the event of the response of c is sent
BesideRespond(c) ==
    /\ flights[c].stage = "processed"
    /\ flights' = [flights EXCEPT ![c] = NoFlight]
    /\ UNCHANGED <<visio_app, documents, files, tempFiles, req, res, calls, log,
                   wire, prev, trail>>

NextStream ==
    \/ StreamBegin
    \/ StreamResume
    \/ \E c \in Clients : BesidePost(c)
    \/ \E c \in Clients : BesideResume(c)
    \/ \E c \in Clients : BesideRespond(c)

SpecStream == Init /\ [][NextStream]_vars

----------------------------------------------------------------------------
(* Properties of a stream in flight (SpecStream) *)

\* C31: a streaming request does not block the other requests: when the
\* collaborator has two or more chunks to send, the stream is still in
\* flight after its first envelope (that envelope is a chunk, not the
\* terminal one, and more follow), and every POST whose body is being read
\* at that point can be processed before the stream goes on.
C31_StreamLeavesRoom ==
    (req # IdleReq /\ Len(req.env.chunks) >= 2 /\ Len(wire) = 1) =>
        /\ wire[1].key = "result"
        /\ wire[1].chunk = << req.env.chunks[1] >>
        /\ Len(Yielded(req.text, req.env)) > 1
        /\ \A c \in Clients :
              flights[c].stage = "reading" => ENABLED BesideResume(c)

----------------------------------------------------------------------------
(* Properties of a batch that deletes and connects (SpecDelete) *)

\* the name the shape with identifier x carried on page p of pages
NameOn(pages, p, x) ==
    LET shapes == pages[p].shapes
    IN shapes[CHOOSE j \in 1..Len(shapes) : shapes[j].id = x].name

\* the entry e of the engine's log gives, without an identifier, a name that
\* no shape of its page but the one deleted by the entry k carried
NamesOnly(k, e, shape_id, shape_name) ==
    /\ shape_id = 0
    /\ ~PageUnresolved(e.ins, e.before)
    /\ PageOf(e.ins, e.before) = k.page
    /\ shape_name = NameOn(k.before, k.page, k.target)
    /\ \A j \in 1..Len(k.after[k.page].shapes) :
          k.after[k.page].shapes[j].name # shape_name

\* the Connect rows of the connector the entry e created (the last shape of
\* its page)
RowsOf(e) == e.after[e.page].shapes[Len(e.after[e.page].shapes)].connects

----------------------------------------------------------------------------
(* Properties of a batch that fails part way (SpecDelete) *)

RECURSIVE InOrder(_, _)
\* the instructions of a batch in the order the engine takes them
InOrder(batch, phases) ==
    IF phases = <<>> THEN <<>>
    ELSE Get(batch, Head(phases)) \o InOrder(batch, Tail(phases))

\* the engine stopped at a call that raised
BatchRaised(entries) ==
    Len(entries) >= 1 /\ entries[Len(entries)].outcome = "raised"

\* C33: a batch is applied in order and not atomically.  When a backend call
\* raises while the batch is being applied, the engine has taken the
\* instructions in order up to the one that raised and none after it, the
\* open document keeps what the instructions before it did, nothing is
\* saved (no Save call is made and the files are as they were), and the
\* request reports an error.
C33_PartialBatchOnFailure ==
    [][(req = IdleReq /\ req'.op = "modify" /\ BatchRaised(log')) =>
          LET order == InOrder(req'.batch, BatchPhases(req'.batch))
              last == Len(log')
              doc == documents'[get_document_by_name(documents', req'.input.path)]
          IN /\ last <= Len(order)
             /\ \A k \in 1..last : log'[k].ins = order[k]
             /\ \A k \in 1..(last - 1) : log'[k].outcome # "raised"
             /\ log'[1].before = Drawing.pages
             /\ \A k \in 1..(last - 1) : log'[k + 1].before = log'[k].after
             /\ doc.pages = log'[last].before
             /\ res'.status = "error"
             /\ \A i \in 1..Len(calls') : calls'[i].call \notin {"Save", "SaveAs"}
             /\ files' = files]_vars

\* the first update of a batch gave shape 3 the text New, the second one
\* raised on its page index, the connection of the batch was never tried:
\* the open document has the new text and the file has not
C33_Witness ==
    /\ req # IdleReq /\ req.op = "modify"
    /\ Len(log) = 2
    /\ log[1].phase = "update_shapes" /\ log[1].outcome = "applied"
    /\ log[2].phase = "update_shapes" /\ log[2].outcome = "raised"
    /\ HasKey(req.batch, "add_connections")
    /\ res.status = "error"
    /\ \E j \in 1..Len(WorkedOn.pages[1].shapes) :
          /\ WorkedOn.pages[1].shapes[j].id = 3
          /\ WorkedOn.pages[1].shapes[j].text = "New"
    /\ \A j \in 1..Len(files[PathFlowA].pages[1].shapes) :
          files[PathFlowA].pages[1].shapes[j].text # "New"

----------------------------------------------------------------------------
(* Properties of the connections of the engine (SpecEngine) *)

\* the identifiers of the shapes of a page
IdsOn(page) == { page.shapes[j].id : j \in 1..Len(page.shapes) }

\* every Connect row of every shape of the page ends on a shape of the page
GluedWithin(page) ==
    \A j \in 1..Len(page.shapes) :
        \A r \in 1..Len(page.shapes[j].connects) :
            /\ page.shapes[j].connects[r].from \in IdsOn(page)
            /\ page.shapes[j].connects[r].to \in IdsOn(page)

\* the ends of the connection instruction of the log entry e, looked up on
\* the page p of the document the instruction found
EndsOn(e, p) ==
    << ShapeOf(e.before[p].shapes, e.ins.from_shape_id, e.ins.from_shape_name),
       ShapeOf(e.before[p].shapes, e.ins.to_shape_id, e.ins.to_shape_name) >>

\* C34: a connector created by add_connections lies on the page of both of
\* its ends.  The instruction looks both ends up on its resolved page only:
\* when both are there the connector is dropped on that page and glued to
\* them, and every other page is as it was; when one of them is not on that
\* page (even if a shape with that identifier or name is on another page)
\* no connector is created.
C34_ConnectorOnPageOfEnds ==
    \A k \in 1..Len(log) :
        (log[k].phase = "add_connections"
            /\ ~PageUnresolved(log[k].ins, log[k].before)) =>
            LET e == log[k]
                p == PageOf(e.ins, e.before)
                ends == EndsOn(e, p)
            IN /\ \A q \in 1..Len(e.after) : GluedWithin(e.after[q])
               /\ (ends[1] = 0 \/ ends[2] = 0) =>
                     /\ e.outcome \in {"from_not_found", "to_not_found"}
                     /\ e.after = e.before
               /\ e.outcome = "applied" =>
                     /\ e.page = p
                     /\ ends[1] # 0 /\ ends[2] # 0
                     /\ Len(e.after[p].shapes) = Len(e.before[p].shapes) + 1
                     /\ RowsOf(e) =
                           << [from |-> e.target, to |-> e.before[p].shapes[ends[1]].id],
                              [from |-> e.target, to |-> e.before[p].shapes[ends[2]].id] >>
                     /\ \A q \in 1..Len(e.after) : q # p => e.after[q] = e.before[q]

\* a batch of two connections on the two-page diagram: the first names
\* shape 3 of the first page and shape 4, which is on the second page, and
\* creates nothing; the second is on the second page and its connector is
\* there, glued to shape 4
C34_Witness ==
    /\ req # IdleReq /\ req.op = "modify"
    /\ Len(log) = 2
    /\ log[1].phase = "add_connections" /\ Len(log[1].before) = 2
    /\ log[1].ins.to_shape_id = 4 /\ log[1].ins.page_index = 1
    /\ log[1].ins.page_name = ""
    /\ log[1].outcome = "to_not_found"
    /\ 4 \in IdsOn(log[1].before[2])
    /\ log[2].outcome = "applied" /\ log[2].page = 2
    /\ Len(log[2].after[2].shapes) = 2
    /\ Len(log[2].after[1].shapes) = 3

----------------------------------------------------------------------------
(* Properties of the deletions of the engine (SpecDelete) *)

\* the shape sh once the backend has deleted the shape with identifier gone:
\* the shape itself is as it was; a connector that was glued to the deleted
\* shape is no longer glued to it
Unglued(sh, gone) ==
    [sh EXCEPT !.connects = SelectSeq(@, LAMBDA c : c.from # gone /\ c.to # gone)]

\* C35: a delete_shapes instruction removes exactly the shape it resolves.
\* The other shapes of the page stay, in their order and with their
\* identifier, name, text, master, position and size, the connectors that
\* were attached to the deleted shape among them (they only lose their glue
\* to it); the other pages are as they were; an instruction that is not
\* applied changes nothing.
C35_DeletesExactlyTheShape ==
    \A k \in 1..Len(log) :
        log[k].phase = "delete_shapes" =>
            IF log[k].outcome # "applied" THEN log[k].after = log[k].before
            ELSE LET e == log[k]
                     p == e.page
                     j == ShapeOf(e.before[p].shapes, e.ins.shape_id, e.ins.shape_name)
                 IN /\ j # 0
                    /\ e.before[p].shapes[j].id = e.target
                    /\ Len(e.after[p].shapes) = Len(e.before[p].shapes) - 1
                    /\ \A i \in 1..Len(e.after[p].shapes) :
                          e.after[p].shapes[i] =
                             Unglued(e.before[p].shapes[IF i < j THEN i ELSE i + 1],
                                     e.target)
                    /\ e.after[p].name = e.before[p].name
                    /\ \A q \in 1..Len(e.after) : q # p => e.after[q] = e.before[q]

\* shape 1 is deleted while a connector of an earlier batch is glued from
\* it to shape 2: the connector is still on the page, glued to shape 2 only
C35_Witness ==
    /\ req # IdleReq /\ req.op = "modify"
    /\ Len(log) = 1
    /\ log[1].phase = "delete_shapes" /\ log[1].outcome = "applied"
    /\ log[1].target = 1
    /\ \E j \in 1..Len(log[1].before[1].shapes) :
          log[1].before[1].shapes[j].connects =
             << [from |-> log[1].before[1].shapes[j].id, to |-> 1],
                [from |-> log[1].before[1].shapes[j].id, to |-> 2] >>
    /\ \E j \in 1..Len(log[1].after[1].shapes) :
          log[1].after[1].shapes[j].connects =
             << [from |-> log[1].after[1].shapes[j].id, to |-> 2] >>

----------------------------------------------------------------------------
(* A session on stdin and stdout.  run_stdio_transport is one loop: "for    *)
(* line in sys.stdin" hands over the next line, and the body handles it and *)
(* prints its response with flush = True before the loop asks for another.  *)
(* req is the line in hand, wire the lines printed since the start of the   *)
(* session and trail the lines handled, in the order they were read.        *)

StdioTexts ==
    { Object("ping", NoObject),
      [json |-> "object", method |-> "get_active_document"],
      Identified(Object(StreamingMethod, Dict([model |-> "llama3"])), 7),
      Object("frobnicate", NoObject),
      Object("analyze_visio_diagram",
             Dict([file_path_or_content |-> PathInput(PathFlowA)])),
      NoObject,
      Malformed }

\* "for line in sys.stdin": the next line of the client is read
StdioRead ==
    \E text \in Arriving(StdioTexts) : \E env \in Envs(text) :
        /\ Len(trail) < MaxTrail
        /\ Servable(text)
        /\ req' = Received("stdio", text, env)
        /\ UNCHANGED <<visio_app, documents, files, tempFiles, res, calls, log,
                       wire, prev, trail, flights>>

\* what the body of the loop leaves for the line in hand
Printed(t) ==
    /\ Len(t.docs) <= MaxDocs
    /\ IdsWithin(t.docs)
    /\ visio_app' = t.app
    /\ documents' = t.docs
    /\ files' = t.fs
    /\ tempFiles' = t.temps
    /\ res' = t.res
    /\ calls' = t.calls
    /\ log' = t.log
    /\ wire' = wire \o t.envelopes
    /\ trail' = Append(trail, Exchange(req, t.res))

\* the body of the loop: the line is decoded and handled, and the response
\* (or the error line of an except clause) is printed and flushed
StdioReply ==
    /\ req # IdleReq
    /\ Printed(run_stdio_transport(visio_app, documents, files, tempFiles,
                                   req.text, req.env))
    /\ req' = IdleReq
    /\ UNCHANGED <<prev, flights>>

NextStdio ==
    \/ StdioRead
    \/ StdioReply

SpecStdio == Init /\ [][NextStdio]_vars

----------------------------------------------------------------------------
(* Properties of a session on stdin and stdout (SpecStdio) *)

\* the printed line answers the line of the exchange x: the parse error for
\* a line that is no JSON, and for a result line the status of the dict the
\* component returned
AnswersLine(envelope, x) ==
    /\ x.req.text = Malformed <=> envelope.code = ParseError
    /\ envelope.key \in {"result", "error"}
    /\ envelope.key = "result" => envelope.result.status = x.status

\* C36: on stdio the responses are printed in the order of the request
\* lines, one line for each line read: the k-th printed line answers the
\* k-th line read, and when a line is read every line read before it has
\* its response printed and flushed.
C36_ResponsesInLineOrder ==
    /\ Len(wire) = Len(trail)
    /\ \A k \in 1..Len(wire) : AnswersLine(wire[k], trail[k])

\* a session of two lines, one that is no JSON and then a ping: two lines
\* have been printed, the parse error and then the result of the ping
C36_Witness ==
    /\ req = IdleReq
    /\ Len(trail) = 2 /\ Len(wire) = 2
    /\ trail[1].req.text = Malformed
    /\ wire[1].code = ParseError
    /\ trail[2].req.text = Object("ping", NoObject)
    /\ wire[2].key = "result"

----------------------------------------------------------------------------
(* Properties of generate_visio_diagram among open documents (Spec) *)

\* C37: generate_visio_diagram closes only a document that the request
\* itself created or opened: every document that was open before the
\* request (a template file an earlier path-based request left open
\* included) is still open after it, and unchanged.
C37_GenerateKeepsOpenDocuments ==
    [][(req = IdleReq /\ req'.op = "generate") =>
          \A k \in 1..Len(documents) :
              \E j \in 1..Len(documents') : documents'[j] = documents[k]]_vars

----------------------------------------------------------------------------
(* The diagrams of generate_visio_diagram.  The entries of "pages" have the *)
(* form generate_diagram_instructions asks the collaborator for: a name, a  *)
(* list of shapes (master, text, x, y) and a list of connections            *)
(* (from_shape_name, to_shape_name, text); neither names a page.            *)

PageShapes ==
    { <<>>,
      << AddInstr(<<"", 1>>, "", "T") >>,
      << AddInstr(<<"", 1>>, "", "T"), AddInstr(<<"", 1>>, "", "") >> }

PageConnections ==
    { <<>>,
      << ConnInstr(<<"", 1>>, <<0, "Sheet.1">>, <<0, "Sheet.2">>, TRUE) >> }

PageEntries(name) ==
    { PageInfo(name, shapes, connections) :
        shapes \in PageShapes, connections \in PageConnections }

DiagramInstructions ==
    { Instructions(FALSE, TRUE, << first >>) : first \in PageEntries("First") }
    \cup { Instructions(TRUE, TRUE, << first, second >>) :
             first \in PageEntries("First"), second \in PageEntries("Second") }

\* a diagram is generated in a new drawing, from the empty template
\* a/plan.vsdx or from the two-page diagram a/flow.vsdx
GenerateDiagram ==
    \E instructions \in Arriving(DiagramInstructions),
       template \in { <<>>, PathPlan, PathFlowA } :
         Generate(instructions, template, NoFault)

NextGenerate ==
    \/ GenerateDiagram
    \/ Return

SpecGenerate == Init /\ [][NextGenerate]_vars

----------------------------------------------------------------------------
(* Properties of the generated diagrams (SpecGenerate) *)

RECURSIVE EntryOf(_, _)
\* for each instruction of the entries i.. of pages_info, in the order
\* _generate_pages takes them, the number of its entry
EntryOf(pages_info, i) ==
    IF i > Len(pages_info) THEN <<>>
    ELSE [k \in 1..(Len(pages_info[i].shapes) + Len(pages_info[i].connections)) |-> i]
         \o EntryOf(pages_info, i + 1)

\* C38: for a non-empty pages list a successful generate_visio_diagram
\* returns a document with exactly one page per entry, named after the
\* entries in order, and every shape and connection listed under an entry
\* is placed on the page of that entry.
C38_PagePerEntry ==
    (/\ req # IdleReq /\ req.op = "generate" /\ res.status = "success"
     /\ req.instructions.has_pages /\ Len(req.instructions.pages) >= 1) =>
        LET pages_info == req.instructions.pages
            pages == res.file_content.pages
        IN /\ Len(pages) = Len(pages_info)
           /\ \A i \in 1..Len(pages) : pages[i].name = pages_info[i].name
           /\ Len(log) = Len(EntryOf(pages_info, 1))
           /\ \A k \in 1..Len(log) :
                 log[k].outcome = "applied" =>
                    log[k].page = EntryOf(pages_info, 1)[k]

----------------------------------------------------------------------------
(* The instructions of the collaborator (ollama_service.py).  The reply of  *)
(* the collaborator is a text of which the handler takes the span from the  *)
(* first '{' to the last '}'.  A text is a sequence over '{', '}', "m" (a   *)
(* member of an object, "key": 1) and "t" (a character of prose).           *)

MaxText == 5

Alphabet == {"{", "}", "m", "t"}

\* str.find(c): the 0-based index of the first c, -1 when there is none
find(text, c) ==
    IF \E k \in 1..Len(text) : text[k] = c
    THEN (CHOOSE k \in 1..Len(text) :
             text[k] = c /\ \A i \in 1..(k - 1) : text[i] # c) - 1
    ELSE -1

\* str.rfind(c) with the first occurrence taken for the last
rfind_first(text, c) == find(text, c)

\* str.rfind(c): the 0-based index of the last c, -1 when there is none
rfind(text, c) ==
    IF \E k \in 1..Len(text) : text[k] = c
    THEN (CHOOSE k \in 1..Len(text) :
             text[k] = c /\ \A i \in (k + 1)..Len(text) : text[i] # c) - 1
    ELSE -1

\* text[start:end] for 0 <= start < end <= len(text)
Slice(text, start, end) == SubSeq(text, start + 1, end)

\* the number of objects open after the first i characters of s
Depth(s, i) ==
    Cardinality({k \in 1..i : s[k] = "{"}) - Cardinality({k \in 1..i : s[k] = "}"})

\* json.loads(s): s is an object when it opens with '{', closes that object
\* with its last character and holds members and objects only; the value
\* is the dict, told by the number of its members and of its nested objects
json_loads_text(s) ==
    IF /\ Len(s) >= 2 /\ s[1] = "{"
       /\ \A i \in 1..(Len(s) - 1) : Depth(s, i) >= 1
       /\ Depth(s, Len(s)) = 0
       /\ \A i \in 1..Len(s) : s[i] # "t"
    THEN [raised |-> FALSE,
          value |-> [json |-> "object",
                     members |-> Cardinality({k \in 1..Len(s) :
                                                 s[k] = "m" /\ Depth(s, k) = 1}),
                     objects |-> Cardinality({k \in 1..Len(s) :
                                                 s[k] = "{" /\ Depth(s, k) = 2})]]
    ELSE [raised |-> TRUE, value |-> [json |-> "none", members |-> 0, objects |-> 0]]

\* what the collaborator does with the POST: the connection fails
\* ("refused"), it answers with an error status ("http_error"), with a body
\* that is no JSON ("not_json") or no object ("no_dict"), with an object
\* whose "response" is null ("null_response") or missing ("no_response"),
\* or with an object whose "response" is text
Reply(kind, text) == [kind |-> kind, text |-> text]

\* the dict a handler of the collaborator returns; raised tells that an
\* exception left the handler instead
Instructed(status, message) ==
    [status |-> status, message |-> message, raised |-> FALSE,
     has_instructions |-> FALSE,
     instructions |-> [json |-> "none", members |-> 0, objects |-> 0],
     has_raw_response |-> FALSE, raw_response |-> <<>>]

\* "json_start = response_text.find('{'); json_end = response_text.rfind('}')
\* + 1" and the rest of the try block, from response_text on; what names
\* the instructions in the messages
InstructionsOf(response_text, json_start, json_end, what) ==
    IF json_start >= 0 /\ json_end > json_start
    THEN IF json_loads_text(Slice(response_text, json_start, json_end)).raised
         THEN [Instructed("error", "Failed to parse " \o what \o " instructions")
                  EXCEPT !.has_raw_response = TRUE, !.raw_response = response_text]
         ELSE [Instructed("success", "") EXCEPT
                  !.has_instructions = TRUE,
                  !.instructions =
                      json_loads_text(Slice(response_text, json_start, json_end)).value]
    ELSE [Instructed("error", "No valid JSON found in the model response")
             EXCEPT !.has_raw_response = TRUE, !.raw_response = response_text]

\* the try block of the two handlers: requests.post, raise_for_status,
\* response.json(), result.get("response", "") and the find of the span;
\* every exception reaches "except Exception"
Instruct(reply, what, verb) ==
    IF reply.kind \in {"refused", "http_error", "not_json", "no_dict", "null_response"}
    THEN Instructed("error", "Failed to generate " \o verb \o " instructions")
    ELSE InstructionsOf(IF reply.kind = "no_response" THEN <<>> ELSE reply.text,
                        find(IF reply.kind = "no_response" THEN <<>> ELSE reply.text,
                             "{"),
                        rfind(IF reply.kind = "no_response" THEN <<>> ELSE reply.text,
                              "}") + 1,
                        what)

generate_diagram_instructions(reply) == Instruct(reply, "diagram", "diagram")

modify_diagram_instructions(reply) == Instruct(reply, "modification", "modification")

Replies ==
    { Reply(kind, <<>>) : kind \in {"refused", "http_error", "not_json", "no_dict",
                                    "null_response", "no_response"} }
    \cup { Reply("text", text) : text \in SeqsUpTo(Alphabet, MaxText) }

\* a request for instructions has been answered by its handler
Instructing(op, result) ==
    /\ req' = [op |-> op, reply |-> result.reply]
    /\ res' = result.res
    /\ UNCHANGED <<visio_app, documents, files, tempFiles, calls, log, wire, prev,
                   trail, flights>>

GenerateDiagramInstructions ==
    \E reply \in Arriving(Replies) :
        Instructing("generate_diagram_instructions",
                    [reply |-> reply, res |-> generate_diagram_instructions(reply)])

ModifyDiagramInstructions ==
    \E reply \in Arriving(Replies) :
        Instructing("modify_diagram_instructions",
                    [reply |-> reply, res |-> modify_diagram_instructions(reply)])

NextInstruct ==
    \/ GenerateDiagramInstructions
    \/ ModifyDiagramInstructions
    \/ Return

SpecInstruct == Init /\ [][NextInstruct]_vars

----------------------------------------------------------------------------
(* Properties of the instructions of the collaborator (SpecInstruct) *)

\* the positions of the character c in text
Places(text, c) == {k \in 1..Len(text) : text[k] = c}

\* the span of text from its first '{' to its last '}'
SpanOf(text) ==
    SubSeq(text, CHOOSE k \in Places(text, "{") : \A i \in Places(text, "{") : k <= i,
           Max(Places(text, "}")))

\* the reply carries a text whose span from the first '{' to the last '}'
\* parses as JSON
SpanParses(reply) ==
    /\ reply.kind = "text"
    /\ Places(reply.text, "{") # {} /\ Places(reply.text, "}") # {}
    /\ ~json_loads_text(SpanOf(reply.text)).raised

\* C39: generate_diagram_instructions and modify_diagram_instructions never
\* raise.  A reply whose span from the first '{' to the last '}' parses as
\* JSON gives status success with the parsed instructions; every other
\* reply (no braces, a span that does not parse, a failure of the
\* transport) gives status error, with the reply text as raw_response when
\* a text was received.
C39_InstructionsNeverRaise ==
    (req # IdleReq /\ req.op \in {"generate_diagram_instructions",
                                  "modify_diagram_instructions"}) =>
        /\ ~res.raised
        /\ IF SpanParses(req.reply)
           THEN /\ res.status = "success"
                /\ res.has_instructions
                /\ res.instructions = json_loads_text(SpanOf(req.reply.text)).value
                /\ ~res.has_raw_response
           ELSE /\ res.status = "error"
                /\ ~res.has_instructions
                /\ req.reply.kind = "text" =>
                      res.has_raw_response /\ res.raw_response = req.reply.text

\* the reply wraps an object in prose and holds a nested object: the span is
\* the object and the instructions are its parse
C39_Witness ==
    /\ req # IdleReq /\ req.op = "generate_diagram_instructions"
    /\ req.reply = Reply("text", <<"t", "{", "{", "}", "}">>)
    /\ res.status = "success"
    /\ res.instructions.objects = 1

====
